---- MODULE Spec2Model ----
(***************************************************************************)
(* SecBoot: the boot manager's verification pipeline and the diagnostics   *)
(* response escalation (Secure/Core/Src/secboot_bootmanager.c,             *)
(* secboot_diag.c) as a state machine.  A 32-bit word that has to keep its *)
(* exact value is written as a pair <<high half, low half>> of 16-bit      *)
(* numbers; small quantities are plain naturals.                           *)
(***************************************************************************)
EXTENDS Integers, Sequences, FiniteSets, TLC

(* ------------------------------ bounds --------------------------------- *)
\* payload bytes an image slot holds behind its header
MaxPayload == 1
\* largest value HAL_GetTick returns
MaxTick == 1
\* calls of VerifyAppSignature and of the failure handlers the caller makes in
\* one boot
MaxCalls == 1
\* modulus of the model's CRC-32 and of the bytes it sums
CrcMod == 3
\* a flash fault hits one of the programming calls 0..MaxFailAt of a log write,
\* or none
MaxFailAt == 1
\* calls of LogEvent in the boot that fills the log region
MaxWrites == 17
\* calls of get_AES_key in one boot
MaxUnwraps == 2
\* largest byte of a version handed to the rollback check, besides 9
MaxVersionByte == 2
\* longest byte string handed to the AES functions
MaxPlainLen == 17
\* bytes between two addresses looked at in a slot
ProbeStep == 2048

(* --------------------------- program constants ------------------------- *)
FW_MAGIC_NUMBER == <<57005, 48879>>
FLASH_ERASED_WORD == <<65535, 65535>>
SECBOOT_MAIN_APP_IMAGE_ADDR == "0x08040000"
SECBOOT_BACKUP_IMAGE_ADDR == "0x08073000"
SECBOOT_DIAG_MAX_LOGS == 16
SECBOOT_DIAG_LOG_SIZE == 64
NULL == 0

Slots == {SECBOOT_MAIN_APP_IMAGE_ADDR, SECBOOT_BACKUP_IMAGE_ADDR}

\* SECBOOT_BOOTMANAGER_StatusTypeDef
SECBOOT_BOOTMANAGER_OK == "BM_OK"
SECBOOT_BOOTMANAGER_ERROR == "BM_ERROR"
SECBOOT_BOOTMANAGER_INVALID_SIGNATURE == "BM_INVALID_SIGNATURE"
SECBOOT_BOOTMANAGER_INVALID_HASH == "BM_INVALID_HASH"
SECBOOT_BOOTMANAGER_INVALID_HEADER == "BM_INVALID_HEADER"
SECBOOT_BOOTMANAGER_INVALID_CRC == "BM_INVALID_CRC"
SECBOOT_BOOTMANAGER_VERSION_ROLLBACK == "BM_VERSION_ROLLBACK"
SECBOOT_BOOTMANAGER_SECURE_VIOLATION == "BM_SECURE_VIOLATION"
SECBOOT_BOOTMANAGER_HW_SECURE_FAULT == "BM_HW_SECURE_FAULT"
SECBOOT_BOOTMANAGER_JUMP_FAILED == "BM_JUMP_FAILED"

\* SECBOOT_SHA_StatusTypeDef
SECBOOT_SHA256_OK == "SHA_OK"
SECBOOT_SHA256_ERROR_COMPUTE == "SHA_ERROR_COMPUTE"
SECBOOT_SHA256_ERROR_NULL_PTR == "SHA_ERROR_NULL_PTR"
SECBOOT_SHA256_ERROR_INVALID_LENGTH == "SHA_ERROR_INVALID_LENGTH"

\* SECBOOT_ECDSA_StatusTypeDef, by its enumerator values
SECBOOT_ECDSA_OK == 0
SECBOOT_ECDSA_ERROR == 1
SECBOOT_ECDSA_INVALID_PARAM == 2
SECBOOT_ECDSA_INVALID_STATE == 3
SECBOOT_ECDSA_PKA_INIT_FAIL == 4
SECBOOT_ECDSA_PKA_COMP_ERROR == 5
SECBOOT_ECDSA_PKA_TIMEOUT == 6
SECBOOT_ECDSA_VERIFICATION_SUCCESS == 7
SECBOOT_ECDSA_VERIFICATION_FAIL == 8
SECBOOT_ECDSA_INVALID_SIGNATURE == 9
SECBOOT_ECDSA_INVALID_PUBKEY == 10
EcdsaStatuses == 0..10

\* SECBOOT_CRC_StatusTypeDef, by its enumerator values
SECBOOT_CRC_OK == 0
SECBOOT_CRC_ERROR == 1
SECBOOT_CRC_INVALID_PARAM == 2
SECBOOT_CRC_INIT_FAILED == 3
SECBOOT_CRC_MISMATCH == 4
CrcStatuses == 0..4

\* HAL_StatusTypeDef
HalStatuses == {"HAL_OK", "HAL_ERROR", "HAL_TIMEOUT"}

(* ------------------------ collaborators (engines) ---------------------- *)
Byte == 0..1

RECURSIVE Pow2(_)
Pow2(n) == IF n = 0 THEN 1 ELSE 2 * Pow2(n - 1)

\* the digest of a byte string: the string read as a binary numeral behind a
\* leading 1, so that different strings (of any lengths) have different digests
RECURSIVE SHA256(_)
SHA256(bytes) ==
    IF bytes = <<>> THEN 1
    ELSE 2 * SHA256(SubSeq(bytes, 1, Len(bytes) - 1)) + bytes[Len(bytes)]

\* 0 is the all-zero buffer, which is no string's digest
Digests == 0..(Pow2(MaxPayload + 1) - 1)

\* the trusted signer's key pair is 1; 2 is another signer; 0 is zeroed storage
PubKeys == 1..2
\* the one signature of digest d that verifies against public key k
Sign(d, k) == 2 * d + k
Signatures == 0..(2 * Pow2(MaxPayload + 1))
\* HAL_PKA_ECDSAVerif_IsValidSignature
IsValidSignature(digest, sig, pubkey) ==
    pubkey \in PubKeys /\ sig # 0 /\ sig = Sign(digest, pubkey)

\* HAL_CRC_Calculate over a sequence of numbers: the value a position holds
\* counts with a weight that depends on the position
RECURSIVE WeightedSum(_)
WeightedSum(s) ==
    IF s = <<>> THEN 0
    ELSE WeightedSum(SubSeq(s, 1, Len(s) - 1)) + ((Len(s) % 2) + 1) * s[Len(s)]

HAL_CRC_Calculate(s) == (WeightedSum(s) + 1) % CrcMod
Crcs == 0..(CrcMod - 1)

\* SECBOOT_CRC_Calculate: the only failure is a NULL pointer
SECBOOT_CRC_Calculate(pData, data, pCrcResult) ==
    IF pData = NULL \/ pCrcResult = NULL
    THEN [status |-> SECBOOT_CRC_INVALID_PARAM, crc |-> 0, wrote |-> FALSE]
    ELSE [status |-> SECBOOT_CRC_OK, crc |-> HAL_CRC_Calculate(data), wrote |-> TRUE]

\* SECBOOT_SHA256_Compute(pInput, inputLength, out); hal is the outcome of the
\* HASH peripheral (Start and Finish)
SECBOOT_SHA256_Compute(pInput, bytes, inputLength, hal) ==
    IF pInput = NULL
    THEN [status |-> SECBOOT_SHA256_ERROR_NULL_PTR, digest |-> 0, engine |-> FALSE]
    ELSE IF inputLength = 0
    THEN [status |-> SECBOOT_SHA256_ERROR_INVALID_LENGTH, digest |-> 0, engine |-> FALSE]
    ELSE IF hal # "HAL_OK"
    THEN [status |-> SECBOOT_SHA256_ERROR_COMPUTE, digest |-> 0, engine |-> TRUE]
    ELSE [status |-> SECBOOT_SHA256_OK,
          digest |-> SHA256(SubSeq(bytes, 1, inputLength)), engine |-> TRUE]

\* SECBOOT_ECDSA_Verify_Signature(pDigest, DigestLen, pSignature, pPubKey);
\* ready is HAL_PKA_GetState(&hpka) = READY, hal the outcome of HAL_PKA_ECDSAVerif
SECBOOT_ECDSA_Verify_Signature(digest, sig, pubkey, ready, hal) ==
    IF ~ready THEN SECBOOT_ECDSA_INVALID_STATE
    ELSE IF hal # "HAL_OK"
    THEN (IF hal = "HAL_TIMEOUT" THEN SECBOOT_ECDSA_PKA_TIMEOUT
                                 ELSE SECBOOT_ECDSA_PKA_COMP_ERROR)
    ELSE IF IsValidSignature(digest, sig, pubkey)
    THEN SECBOOT_ECDSA_VERIFICATION_SUCCESS
    ELSE SECBOOT_ECDSA_VERIFICATION_FAIL

(* ----------------------------- data model ------------------------------ *)
\* FirmwareHeader_TypeDef, and the payload bytes the slot holds
Versions == {<<1, 0, 0, 0>>}
EntryPoints == {NULL, 1}
Headers ==
    [magicNumber : {FW_MAGIC_NUMBER, FLASH_ERASED_WORD},
     imageSize : 0..MaxPayload,
     version : Versions,
     entryPoint : EntryPoints,
     firmwareHash : Digests,
     signature : Signatures,
     headerCRC : Crcs]

Payloads == [1..MaxPayload -> Byte]

\* the CRC "of this header (excluding this field)"
HeaderCrcOf(h) ==
    HAL_CRC_Calculate(<<h.magicNumber[1] % CrcMod, h.magicNumber[2] % CrcMod,
                        h.imageSize>> \o h.version
                      \o <<h.entryPoint, h.firmwareHash, h.signature>>)

Images == [hdr : Headers, payload : Payloads]

(* ------------------ SECBOOT_BootManager_VerifyAppSignature ------------- *)
NOT_CALLED == "NOT_CALLED"

\* the function up to its return statement: the status, what each collaborator
\* returned (sha NOT_CALLED, ecdsaCalled FALSE when the call is not reached),
\* whether the HASH peripheral was started (engine), and whether the three
\* memset calls of the success path ran.  img is the slot at image_address, key
\* the public key stored at ECC_PUBKEY_OFFSET.
\* line 236: the magic number gate (and the gate left open, for comparison)
BadMagic_Skipped(h) == FALSE
BadMagic(h) == h.magicNumber # FW_MAGIC_NUMBER

\* line 243: the hash engine's status (and the status never looked at)
HashFailed_Ignored(shaStatus) == FALSE
HashFailed(shaStatus) == shaStatus # SECBOOT_SHA256_OK

\* line 249: memcmp of the computed digest and the header's firmwareHash (and
\* the comparison left out)
HashMismatch_Skipped(digest, h) == FALSE
HashMismatch(digest, h) == digest # h.firmwareHash

\* line 261: the signature engine's status, accepted on VERIFICATION_SUCCESS
\* alone (and accepted on everything but VERIFICATION_FAIL)
SignatureAccepted_NotFail(e) == e # SECBOOT_ECDSA_VERIFICATION_FAIL
SignatureAccepted(e) == e = SECBOOT_ECDSA_VERIFICATION_SUCCESS

VerifyAppSignature(img, key, ready, shaHal, pkaHal) ==
    LET pAppHeader == img.hdr
        pAppBinary == pAppHeader.entryPoint
        none == [sha |-> NOT_CALLED, engine |-> FALSE, digest |-> 0,
                 ecdsaCalled |-> FALSE, ecdsa |-> SECBOOT_ECDSA_OK, scrub |-> FALSE]
    IN  IF BadMagic(pAppHeader)
        THEN none @@ [status |-> SECBOOT_BOOTMANAGER_INVALID_HEADER]
        ELSE LET sha == SECBOOT_SHA256_Compute(pAppBinary, img.payload,
                                               pAppHeader.imageSize, shaHal)
                 hashed == [none EXCEPT !.sha = sha.status, !.engine = sha.engine,
                                        !.digest = sha.digest]
             IN  IF HashFailed(sha.status)
                 THEN hashed @@ [status |-> SECBOOT_BOOTMANAGER_ERROR]
                 ELSE IF HashMismatch(sha.digest, pAppHeader)
                 THEN hashed @@ [status |-> SECBOOT_BOOTMANAGER_INVALID_HASH]
                 ELSE LET e == SECBOOT_ECDSA_Verify_Signature(
                                   sha.digest, pAppHeader.signature, key, ready, pkaHal)
                      IN  IF SignatureAccepted(e)
                          THEN [hashed EXCEPT !.ecdsaCalled = TRUE, !.ecdsa = e,
                                             !.scrub = TRUE] @@
                               [status |-> SECBOOT_BOOTMANAGER_OK]
                          ELSE [hashed EXCEPT !.ecdsaCalled = TRUE, !.ecdsa = e] @@
                               [status |-> SECBOOT_BOOTMANAGER_INVALID_SIGNATURE]

\* memset(public_key, 0, ...) and memset(signature, 0, ...) write through
\* pointers into the stored data (ECC_PUBKEY_OFFSET, the header in the slot),
\* the second one through a pointer to const storage: the stores either land
\* (sticks) or are discarded by the flash interface
ScrubbedImage(img, scrub, sticks) ==
    IF scrub /\ sticks THEN [img EXCEPT !.hdr.signature = 0] ELSE img

ScrubbedKey(key, scrub, sticks) ==
    IF scrub /\ sticks THEN 0 ELSE key

(* -------------------------- SECBOOT_Diag_LogEvent ---------------------- *)
\* SECBOOT_Diag_TypeDef
SECBOOT_DIAG_OK == "DIAG_OK"
SECBOOT_DIAG_ERROR == "DIAG_ERROR"
SECBOOT_DIAG_INVALID_PARAM == "DIAG_INVALID_PARAM"
SECBOOT_DIAG_TAMPERED == "DIAG_TAMPERED"

\* SECBOOT_Diag_EventType
SECBOOT_DIAG_CRC_FAIL == 16
SECBOOT_DIAG_SIG_FAIL == 32
SECBOOT_DIAG_SECURE_VIOLATION == 48
SECBOOT_DIAG_ROLLBACK_ATTEMPT == 64

\* failure codes
SIG_FAIL_MAIN_IMAGE == 32
SIG_FAIL_BACKUP_IMAGE == 33
SIG_FAIL_CONFIG_SIGNATURE == 34
SIG_FAIL_KEY_EXPIRED == 35
SIG_FAIL_HW_CRYPTO_ERROR == 36
SIG_FAIL_UNKNOWN == 47
ROLLBACK_NORMAL_RECOVERY == 64
ROOLBACK_JUMP_FAILED == 69

\* a small value as a 32-bit word
Word(n) == <<0, n>>
\* HAL_GetTick counts up: a read returns no less than the read before it
TicksFrom(t) == t..MaxTick

\* the log region: SECBOOT_DIAG_MAX_LOGS slots of SECBOOT_DIAG_LOG_SIZE bytes,
\* each slot eight doublewords, a doubleword a pair of 32-bit words.  A slot
\* is the sequence of its doublewords up to the last one that is not erased;
\* every doubleword behind them is erased.
DoubleWords == SECBOOT_DIAG_LOG_SIZE \div 8
ERASED_DW == <<FLASH_ERASED_WORD, FLASH_ERASED_WORD>>
ErasedSlot == <<>>
ErasedLog == [k \in 0..(SECBOOT_DIAG_MAX_LOGS - 1) |-> ErasedSlot]
\* doubleword i (from 0) of a slot as the bus reads it
SlotRead(slot, i) == IF i < Len(slot) THEN slot[i + 1] ELSE ERASED_DW

\* the bytes of SECBOOT_Diag_LogEntry the CRC is computed over (everything
\* before crc, the padding after error_code included)
EntryCrcInput(ts, event, code, pad, data) ==
    <<ts[1] % CrcMod, ts[2] % CrcMod, event, code, pad,
      data[1] % CrcMod, data[2] % CrcMod>>

\* a word of the caller's stack frame: its content is not the program's to know
STACK_WORD == <<-1, -1>>

\* the 64 bytes HAL_FLASH_Program reads at &entry: the 20 bytes of the entry,
\* then whatever the stack holds behind it
EntryDoubleWords(ts, event, code, pad, data, crc) ==
    [i \in 1..DoubleWords |->
        CASE i = 1 -> <<ts, Word(event)>>
          [] i = 2 -> <<<<code, pad>>, data>>
          [] i = 3 -> <<Word(crc), STACK_WORD>>
          [] OTHER -> <<STACK_WORD, STACK_WORD>>]

\* how many of the doublewords get programmed: HAL_FLASH_Program fails on a
\* doubleword that is not erased, and at call number failAt for any other
\* hardware reason (failAt = DoubleWords: never)
RECURSIVE Programmed(_, _, _)
Programmed(slot, failAt, i) ==
    IF i = DoubleWords \/ i = failAt \/ SlotRead(slot, i) # ERASED_DW THEN i
    ELSE Programmed(slot, failAt, i + 1)

\* log_index behind a programmed entry (and an index that stops at the last
\* slot, and one that does not move)
NextLogIndex_Saturates(idx) ==
    IF idx + 1 = SECBOOT_DIAG_MAX_LOGS THEN idx ELSE idx + 1
NextLogIndex_Stays(idx) == idx
NextLogIndex(idx) == (idx + 1) % SECBOOT_DIAG_MAX_LOGS

\* the verdict on the entry read back: its stored crc against the CRC
\* recomputed over its other fields (and a verdict that trusts the write)
ReadBackStatus_Trusting(stored, crc) == SECBOOT_DIAG_OK
ReadBackStatus(stored, crc) ==
    IF stored # Word(crc) THEN SECBOOT_DIAG_TAMPERED ELSE SECBOOT_DIAG_OK

\* the LOCK bit of the flash control register behind HAL_FLASH_Unlock() and
\* behind HAL_FLASH_Lock() (and a lock call that does nothing)
HAL_FLASH_Unlock(locked) == FALSE
HAL_FLASH_Lock_Dropped(locked) == locked
HAL_FLASH_Lock(locked) == TRUE

\* the check that the slot is erased: the first word at log_addr is read (and
\* a function that does not look)
SlotErased_Unchecked(slot) == TRUE
SlotErased(slot) == SlotRead(slot, 0)[1] = FLASH_ERASED_WORD

\* the whole function: its return value and what it leaves in log_index, the
\* log region and the flash lock.  tick is what HAL_GetTick returns, pad the
\* padding bytes of the local entry, failAt the flash outcome.
SECBOOT_Diag_LogEvent(lg, idx, locked, event, code, data, tick, pad, failAt) ==
    LET same == [log |-> lg, index |-> idx, locked |-> locked]
        unlocked == HAL_FLASH_Unlock(locked)
        temp == SECBOOT_CRC_Calculate(1, EntryCrcInput(tick, event, code, pad, data), 1)
        \* entry.crc keeps the 0 it was given: temp_crc is never copied back
        entry == EntryDoubleWords(tick, event, code, pad, data, 0)
        slot == lg[idx]
        n == Programmed(slot, failAt, 0)
        \* the first n doublewords are the entry's, the rest is what was there
        written == IF n = 0 THEN slot
                   ELSE SubSeq(entry, 1, n) \o SubSeq(slot, n + 1, Len(slot))
        after == [lg EXCEPT ![idx] = written]
    IN  IF event > SECBOOT_DIAG_ROLLBACK_ATTEMPT
        THEN same @@ [ret |-> SECBOOT_DIAG_INVALID_PARAM]
        ELSE IF temp.status # SECBOOT_CRC_OK
        THEN same @@ [ret |-> SECBOOT_DIAG_ERROR]
        ELSE IF ~SlotErased(slot)
        THEN [same EXCEPT !.locked = HAL_FLASH_Lock(unlocked)] @@
             [ret |-> SECBOOT_DIAG_TAMPERED]
        ELSE IF n < DoubleWords
        THEN [log |-> after, index |-> idx, locked |-> HAL_FLASH_Lock(unlocked)] @@
             [ret |-> SECBOOT_DIAG_ERROR]
        ELSE LET w == [i \in 0..2 |-> SlotRead(written, i)]
                 verify == SECBOOT_CRC_Calculate(1,
                               EntryCrcInput(w[0][1], w[0][2][2], w[1][1][1], w[1][1][2],
                                             w[1][2]), 1)
                 done == [log |-> after,
                          index |-> NextLogIndex(idx),
                          locked |-> HAL_FLASH_Lock(unlocked)]
             IN  IF verify.status # SECBOOT_CRC_OK
                 THEN done @@ [ret |-> SECBOOT_DIAG_ERROR]
                 ELSE done @@ [ret |-> ReadBackStatus(w[2][1], verify.crc)]

(* ----------------------- SECBOOT_BootManager_Init ---------------------- *)
NumSecurePeripherals == 7

\* SECBOOT_ECDSA_Init: is_initialized is its static flag, hal the outcome of
\* HAL_PKA_Init, state whether HAL_PKA_GetState then reports READY (and an
\* initialisation that does not look at the flag)
SECBOOT_ECDSA_Init_Reentrant(is_initialized, ready, hal, state) ==
    IF hal # "HAL_OK"
    THEN [status |-> IF hal = "HAL_TIMEOUT" THEN SECBOOT_ECDSA_PKA_TIMEOUT
                                             ELSE SECBOOT_ECDSA_PKA_INIT_FAIL,
          flag |-> is_initialized, ready |-> FALSE]
    ELSE IF ~state
    THEN [status |-> SECBOOT_ECDSA_PKA_INIT_FAIL, flag |-> is_initialized,
          ready |-> FALSE]
    ELSE [status |-> SECBOOT_ECDSA_OK, flag |-> TRUE, ready |-> TRUE]
SECBOOT_ECDSA_Init(is_initialized, ready, hal, state) ==
    IF is_initialized
    THEN [status |-> SECBOOT_ECDSA_INVALID_STATE, flag |-> TRUE, ready |-> ready]
    ELSE IF hal # "HAL_OK"
    THEN [status |-> IF hal = "HAL_TIMEOUT" THEN SECBOOT_ECDSA_PKA_TIMEOUT
                                             ELSE SECBOOT_ECDSA_PKA_INIT_FAIL,
          flag |-> FALSE, ready |-> FALSE]
    ELSE IF ~state
    THEN [status |-> SECBOOT_ECDSA_PKA_INIT_FAIL, flag |-> FALSE, ready |-> FALSE]
    ELSE [status |-> SECBOOT_ECDSA_OK, flag |-> TRUE, ready |-> TRUE]

\* SECBOOT_ECDSA_DeInit: is_initialized is its own static flag, not the one of
\* SECBOOT_ECDSA_Init; hal is the outcome of HAL_PKA_DeInit
SECBOOT_ECDSA_DeInit(is_initialized, ready, hal) ==
    IF ~is_initialized
    THEN [status |-> SECBOOT_ECDSA_INVALID_STATE, flag |-> is_initialized,
          ready |-> ready]
    ELSE IF hal # "HAL_OK"
    THEN [status |-> IF hal = "HAL_TIMEOUT" THEN SECBOOT_ECDSA_PKA_TIMEOUT
                                             ELSE SECBOOT_ECDSA_ERROR,
          flag |-> is_initialized, ready |-> ready]
    ELSE [status |-> SECBOOT_ECDSA_OK, flag |-> FALSE, ready |-> FALSE]

\* a step of the initialisation runs only while status is still OK (and a
\* variant in which the crypto steps run whatever the status)
InitContinues_Always(status) == TRUE
InitContinues(status) == status = SECBOOT_BOOTMANAGER_OK

\* periphOK: how many HAL_GTZC_TZSC_ConfigPeriphAttributes calls succeed before
\* the first failure; sram1, sram2, pka, crc, sha: the outcomes of the HAL calls
BootManager_Init(is_initialized, ready, periphOK, sram1, sram2, pka, state, crc, sha) ==
    LET s1 == IF periphOK < NumSecurePeripherals
              THEN SECBOOT_BOOTMANAGER_SECURE_VIOLATION ELSE SECBOOT_BOOTMANAGER_OK
        s2 == IF s1 = SECBOOT_BOOTMANAGER_OK /\ sram1 # "HAL_OK"
              THEN SECBOOT_BOOTMANAGER_SECURE_VIOLATION ELSE s1
        s3 == IF s2 = SECBOOT_BOOTMANAGER_OK /\ sram2 # "HAL_OK"
              THEN SECBOOT_BOOTMANAGER_SECURE_VIOLATION ELSE s2
        ecdsaRun == InitContinues(s3)
        e == SECBOOT_ECDSA_Init(is_initialized, ready, pka, state)
        s4 == IF ecdsaRun /\ e.status # SECBOOT_ECDSA_OK
              THEN SECBOOT_BOOTMANAGER_HW_SECURE_FAULT ELSE s3
        crcRun == InitContinues(s4)
        s5 == IF crcRun /\ crc # "HAL_OK"
              THEN SECBOOT_BOOTMANAGER_HW_SECURE_FAULT ELSE s4
        shaRun == InitContinues(s5)
        s6 == IF shaRun /\ sha # "HAL_OK"
              THEN SECBOOT_BOOTMANAGER_HW_SECURE_FAULT ELSE s5
    IN  [status |-> s6,
         ecdsaCalled |-> ecdsaRun,
         ecdsa |-> IF ecdsaRun THEN e.status ELSE SECBOOT_ECDSA_OK,
         crcCalled |-> crcRun, shaCalled |-> shaRun,
         flag |-> IF ecdsaRun THEN e.flag ELSE is_initialized,
         ready |-> IF ecdsaRun THEN e.ready ELSE ready]

(* ------------------------------ get_AES_key ---------------------------- *)
\* SECBOOT_AES_StatusTypeDef
SECBOOT_AES_OK == "AES_OK"
SECBOOT_AES_ERROR == "AES_ERROR"
SECBOOT_AES_INVALID_PARAM == "AES_INVALID_PARAM"
SECBOOT_AES_PADDING_ERROR == "AES_PADDING_ERROR"

AES_BLOCK_SIZE == 16
KEY_WORD_SIZE == 4
IV_WORD_SIZE == 4
AES_KEY_SIZE == 32
AES_IV_SIZE == 16

WORD_00000000 == <<0, 0>>
WORD_FFFFFFFF == <<65535, 65535>>
ZeroWords(n) == [i \in 1..n |-> WORD_00000000]
ZeroBytes(n) == [i \in 1..n |-> 0]

\* uint32_to_bytes_be(input, word_count, output): the bytes of each word, most
\* significant first
uint32_to_bytes_be(input, word_count) ==
    [k \in 1..(4 * word_count) |->
        LET w == input[((k - 1) \div 4) + 1]
            j == (k - 1) % 4
        IN  CASE j = 0 -> w[1] \div 256
              [] j = 1 -> w[1] % 256
              [] j = 2 -> w[2] \div 256
              [] j = 3 -> w[2] % 256]

\* bytes_to_uint32_be(input, input_len, output): input_len / 4 words
bytes_to_uint32_be(input, input_len) ==
    [i \in 1..(input_len \div 4) |->
        <<input[4 * i - 3] * 256 + input[4 * i - 2],
          input[4 * i - 1] * 256 + input[4 * i]>>]

\* (and a padding that adds nothing to a whole number of blocks)
PKCS7_Pad_NoFullBlock(input, len) ==
    LET pad_len == (AES_BLOCK_SIZE - (len % AES_BLOCK_SIZE)) % AES_BLOCK_SIZE
    IN  [k \in 1..(len + pad_len) |-> IF k <= len THEN input[k] ELSE pad_len]
PKCS7_Pad(input, len) ==
    LET pad_len == AES_BLOCK_SIZE - (len % AES_BLOCK_SIZE)
    IN  [k \in 1..(len + pad_len) |-> IF k <= len THEN input[k] ELSE pad_len]

PKCS7_Unpad(input, input_len) ==
    LET nok == [ok |-> FALSE, output |-> <<>>]
        pad == input[input_len]
    IN  IF input_len = 0 \/ input_len % AES_BLOCK_SIZE # 0 THEN nok
        ELSE IF pad = 0 \/ pad > AES_BLOCK_SIZE \/ pad > input_len THEN nok
        ELSE IF \E i \in 0..(pad - 1) : input[input_len - i] # pad THEN nok
        ELSE [ok |-> TRUE, output |-> SubSeq(input, 1, input_len - pad)]

\* the CRYP peripheral in CBC mode: a ciphertext is the plaintext under the key
\* and the vector it was made with; any other key or vector turns it into
\* words that are no padded plaintext
HAL_CRYP_Encrypt(words, key, iv) == [plain |-> words, key |-> key, iv |-> iv]
HAL_CRYP_Decrypt(ciphertext, key, iv) ==
    IF ciphertext.key = key /\ ciphertext.iv = iv THEN ciphertext.plain
    ELSE ZeroWords(Len(ciphertext.plain))

\* SECBOOT_AES_Init(ctx, key, iv): the context holds key and iv before the
\* peripheral is initialised
SECBOOT_AES_Init(key, iv, hal) ==
    [status |-> IF hal # "HAL_OK" THEN SECBOOT_AES_ERROR ELSE SECBOOT_AES_OK,
     ctx |-> [key |-> key, iv |-> iv]]

\* SECBOOT_AES_DeInit(ctx): the context is cleared only behind a successful
\* HAL_CRYP_DeInit
SECBOOT_AES_DeInit(ctx, hal) ==
    IF hal # "HAL_OK" THEN [status |-> SECBOOT_AES_ERROR, ctx |-> ctx]
    ELSE [status |-> SECBOOT_AES_OK,
          ctx |-> [key |-> ZeroWords(KEY_WORD_SIZE), iv |-> ZeroWords(IV_WORD_SIZE)]]

\* SECBOOT_AES_Encrypt(ctx, plaintext, plaintext_len, ciphertext, ...), as the
\* provisioning of a device uses it
SECBOOT_AES_Encrypt(ctx, plaintext, plaintext_len) ==
    LET padded == PKCS7_Pad(plaintext, plaintext_len)
    IN  HAL_CRYP_Encrypt(bytes_to_uint32_be(padded, Len(padded)), ctx.key, ctx.iv)

\* SECBOOT_AES_Decrypt(ctx, ciphertext, ciphertext_len, plaintext, plaintext_len);
\* plaintext is written only on success
SECBOOT_AES_Decrypt(ctx, ciphertext, ciphertext_len, hal) ==
    LET words == HAL_CRYP_Decrypt(ciphertext, ctx.key, ctx.iv)
        bytes == uint32_to_bytes_be(words, ciphertext_len)
        u == PKCS7_Unpad(bytes, ciphertext_len * 4)
    IN  IF hal # "HAL_OK"
        THEN [status |-> SECBOOT_AES_ERROR, plaintext |-> <<>>]
        ELSE IF ~u.ok
        THEN [status |-> SECBOOT_AES_PADDING_ERROR, plaintext |-> <<>>]
        ELSE [status |-> SECBOOT_AES_OK, plaintext |-> u.output]

\* temp_key: the three UID words and the magic number
TempKey(uid) == <<uid[1], uid[2], uid[3], FW_MAGIC_NUMBER>>

\* the loop that looks for a key word that is neither 0x00000000 nor
\* 0xFFFFFFFF, over the words it reads
ValidKey(words) ==
    \E i \in 1..Len(words) : words[i] # WORD_00000000 /\ words[i] # WORD_FFFFFFFF

\* get_AES_key(AES_secret) on a device dev.  init, decrypt and deinit are the
\* outcomes of the CRYP peripheral.  The validation loop runs over
\* AES_KEY_SIZE / 4 = 8 words of Aes_key, an array of KEY_WORD_SIZE = 4: behind
\* is what the stack holds in the words behind the array.
get_AES_key(dev, init, decrypt, deinit, behind) ==
    LET temp_key == TempKey(dev.uid)
        temp_iv == dev.iv
        Aes_iv == dev.iv
        i == SECBOOT_AES_Init(temp_key, temp_iv, init)
        initOK == i.status = SECBOOT_AES_OK
        d == SECBOOT_AES_Decrypt(i.ctx, dev.wrappedKey,
                                 AES_KEY_SIZE \div 4, decrypt)
        decOK == initOK /\ d.status = SECBOOT_AES_OK
        decrypted_key_len == IF decOK THEN Len(d.plaintext) ELSE 0
        decrypted_key == IF decOK
                         THEN d.plaintext \o ZeroBytes(AES_KEY_SIZE - decrypted_key_len)
                         ELSE ZeroBytes(AES_KEY_SIZE)
        converted == bytes_to_uint32_be(decrypted_key, decrypted_key_len)
        Aes_key == [k \in 1..KEY_WORD_SIZE |->
                       IF k <= Len(converted) THEN converted[k] ELSE WORD_00000000]
        \* what the loop reads at Aes_key[0..7]
        read == [k \in 1..(AES_KEY_SIZE \div 4) |->
                    IF k <= KEY_WORD_SIZE THEN Aes_key[k]
                    ELSE IF k <= Len(converted) THEN converted[k]
                    ELSE behind[k - KEY_WORD_SIZE]]
        s1 == IF decOK /\ ValidKey(read) THEN SECBOOT_AES_OK ELSE SECBOOT_AES_ERROR
        \* the indices of Aes_key the loop reads: up to the first word that is
        \* neither pattern, or all of 0..7
        valid == {k \in 1..(AES_KEY_SIZE \div 4) :
                     read[k] # WORD_00000000 /\ read[k] # WORD_FFFFFFFF}
        first == IF valid = {} THEN AES_KEY_SIZE \div 4
                 ELSE CHOOSE k \in valid : \A j \in valid : k <= j
        e == SECBOOT_AES_DeInit(i.ctx, deinit)
    IN  [status |-> IF e.status # SECBOOT_AES_OK THEN SECBOOT_AES_ERROR ELSE s1,
         initCalled |-> TRUE, decryptCalled |-> initOK, deinitCalled |-> TRUE,
         initStatus |-> i.status,
         decryptStatus |-> IF initOK THEN d.status ELSE SECBOOT_AES_OK,
         deinitStatus |-> e.status,
         \* the key words the decryption produced
         key |-> Aes_key,
         \* the indices of Aes_key that bytes_to_uint32_be wrote and that the
         \* validation loop read
         keyWritten |-> IF decOK THEN 0..(Len(converted) - 1) ELSE {},
         keyRead |-> IF decOK THEN 0..(first - 1) ELSE {},
         AES_secret |-> [AES_key |-> Aes_key, AES_iv |-> Aes_iv],
         \* the locals as the function leaves them on its stack
         locals |-> [temp_key |-> ZeroWords(4),
                     temp_iv |-> ZeroWords(AES_IV_SIZE \div 4),
                     decrypted_key |-> ZeroBytes(AES_KEY_SIZE),
                     Aes_key |-> Aes_key, Aes_iv |-> Aes_iv,
                     ctx_key |-> e.ctx.key, ctx_iv |-> e.ctx.iv]]

\* the master keys a provisioning can wrap: every word 0x00000000, every word
\* 0xFFFFFFFF, words of both kinds, and keys with a word that is neither
MasterKeys ==
    {ZeroWords(KEY_WORD_SIZE),
     [k \in 1..KEY_WORD_SIZE |-> WORD_FFFFFFFF],
     <<WORD_00000000, WORD_FFFFFFFF, WORD_00000000, WORD_FFFFFFFF>>,
     <<Word(1), WORD_00000000, WORD_00000000, WORD_00000000>>,
     <<WORD_00000000, WORD_00000000, WORD_00000000, <<258, 772>>>>}

Uids == {<<Word(1), Word(1), Word(1)>>, <<Word(2), Word(1), Word(1)>>}
StoredIv == <<Word(1), Word(2), Word(3), Word(4)>>

\* the wrapped key of master key k for the device with UID uid
WrappedKey(k, uid) ==
    SECBOOT_AES_Encrypt([key |-> TempKey(uid), iv |-> StoredIv],
                        uint32_to_bytes_be(k, Len(k)), 4 * Len(k))

\* a blob at AES_KEY_OFFSET whose padding leaves 20 bytes: five words
LongKeys == {<<Word(1), WORD_00000000, WORD_00000000, WORD_00000000, Word(2)>>}

\* the bootloader region and the CRC word stored behind it
BootloaderBytes == <<1, 2>>

\* a device as the factory provisions it
FactoryDevice ==
    [uid |-> <<Word(1), Word(1), Word(1)>>,
     wrappedKey |-> WrappedKey(<<Word(1), WORD_00000000, WORD_00000000,
                                 WORD_00000000>>, <<Word(1), Word(1), Word(1)>>),
     iv |-> StoredIv,
     bootloader |-> BootloaderBytes,
     storedCrc |-> HAL_CRC_Calculate(BootloaderBytes)]

\* devices that hold the wrapped key of any master key, made for their own UID
\* or for another device's
Devices ==
    {[FactoryDevice EXCEPT !.uid = uid, !.wrappedKey = WrappedKey(k, for)] :
        uid \in Uids, for \in Uids, k \in MasterKeys \cup LongKeys}

\* devices whose bootloader region or stored CRC word holds anything
BootDevices ==
    {[FactoryDevice EXCEPT !.bootloader = b, !.storedCrc = c] :
        b \in [1..Len(BootloaderBytes) -> Crcs], c \in Crcs}

\* the comparison of the stored CRC word with the computed one (and one that
\* accepts any)
CrcMatches_Always(stored_crc, computed_crc) == TRUE
CrcMatches(stored_crc, computed_crc) == stored_crc = computed_crc

\* SECBOOT_BootManager_VerifyBootloaderCRC() on a device dev
VerifyBootloaderCRC(dev) ==
    LET c == SECBOOT_CRC_Calculate(1, dev.bootloader, 1)
    IN  IF c.status # SECBOOT_CRC_OK THEN SECBOOT_BOOTMANAGER_ERROR
        ELSE IF CrcMatches(dev.storedCrc, c.crc) THEN SECBOOT_BOOTMANAGER_OK
        ELSE SECBOOT_BOOTMANAGER_INVALID_CRC

\* what the stack can hold in the four words behind Aes_key
StackWords ==
    {ZeroWords(4), <<Word(1), Word(2), Word(3), Word(4)>>}

(* ------------------------------- state --------------------------------- *)
\* SECBOOT_Diag_ResponseLevel, by its enumerator values
SECBOOT_DIAG_RESP_NONE == 0
SECBOOT_DIAG_RESP_WARN == 1
SECBOOT_DIAG_RESP_RECOVER == 2
SECBOOT_DIAG_RESP_LOCKDOWN == 3

VARIABLES
    flash,          \* the image slots: header and payload at each slot address
    pubkey,         \* the public key stored at ECC_PUBKEY_OFFSET
    log,            \* the log region at SECBOOT_DIAG_LOG_BASE
    log_index,      \* static log_index of SECBOOT_Diag_LogEvent
    flashLocked,    \* the flash control register lock
    is_initialized, \* static is_initialized of SECBOOT_ECDSA_Init
    pkaReady,       \* hpka.State = HAL_PKA_STATE_READY
    ledPin,         \* GPIOD pin 3
    pc,             \* where the boot context is
    level,          \* the argument of the pending SECBOOT_Diag_ExecuteResponse
    ep,             \* the failure handler in progress and what it did so far
    lastVerify,     \* the last call of VerifyAppSignature: arguments and outcome
    lastLog,        \* the last call of SECBOOT_Diag_LogEvent: arguments and outcome
    ret,            \* what the last call returned; NoRet while a handler runs
    verified,       \* addresses VerifyAppSignature returned OK for, this boot
    jumps,          \* addresses SECBOOT_BootManager_JumpTo was called with, this boot
    tick,           \* the last value HAL_GetTick returned
    calls,          \* verification and handler calls made this boot
    device,         \* the UID words and the secure flash behind the bootloader
    unwraps,        \* the calls of get_AES_key made this boot, in order
    deinit_is_initialized  \* static is_initialized of SECBOOT_ECDSA_DeInit

vars == <<flash, pubkey, log, log_index, flashLocked, is_initialized, pkaReady,
          ledPin, pc, level, ep, lastVerify, lastLog, ret, verified, jumps,
          tick, calls, device, unwraps, deinit_is_initialized>>

NoEpisode == [handler |-> "none", status |-> 0, response |-> SECBOOT_DIAG_RESP_NONE,
              logRet |-> "none", executed |-> <<>>, backupVerifies |-> 0,
              jumpRet |-> NOT_CALLED]
NoVerify == [called |-> FALSE]
\* programmed: the calls of LogEvent that programmed their whole entry, this boot
NoLog == [called |-> FALSE, programmed |-> 0]
NoRet == [fn |-> "none"]

\* RAM after reset
RamInit ==
    /\ log_index = 0
    /\ is_initialized = FALSE
    /\ pkaReady = FALSE
    /\ pc = "idle"
    /\ level = SECBOOT_DIAG_RESP_NONE
    /\ ep = NoEpisode
    /\ lastVerify = NoVerify
    /\ lastLog = NoLog
    /\ ret = NoRet
    /\ verified = {}
    /\ jumps = <<>>
    /\ tick = 1
    /\ calls = 0
    /\ unwraps = <<>>
    /\ deinit_is_initialized = FALSE

\* a header as the signing process makes it for a payload
SignedHeader(payload, size, key) ==
    LET h == [magicNumber |-> FW_MAGIC_NUMBER, imageSize |-> size,
              version |-> <<1, 0, 0, 0>>, entryPoint |-> 1,
              firmwareHash |-> SHA256(SubSeq(payload, 1, size)),
              signature |-> Sign(SHA256(SubSeq(payload, 1, size)), key),
              headerCRC |-> 0]
    IN  [h EXCEPT !.headerCRC = HeaderCrcOf(h)]

\* what a slot of a device in the field can hold: an image signed by the
\* trusted signer or by another one, whole or with one field damaged or blank
FieldImages ==
    {img \in Images :
        /\ img.payload = [i \in 1..MaxPayload |-> 1]
        /\ \E key \in PubKeys :
              LET good == SignedHeader(img.payload, MaxPayload, key)
              IN  \/ img.hdr = good
                  \/ key = 1 /\ img.hdr = [good EXCEPT !.magicNumber = FLASH_ERASED_WORD]
                  \/ key = 1 /\ \E d \in Digests :
                                    img.hdr = [good EXCEPT !.firmwareHash = d]}

\* the image the factory puts into the main slot
FactoryImage ==
    LET payload == [i \in 1..MaxPayload |-> 1]
    IN  [hdr |-> SignedHeader(payload, MaxPayload, 1), payload |-> payload]

\* the log region as an earlier boot that wrote one entry leaves it
UsedLog ==
    [ErasedLog EXCEPT ![0] = EntryDoubleWords(Word(1), SECBOOT_DIAG_CRC_FAIL,
                                              SECBOOT_CRC_INVALID_PARAM, 0, Word(1), 0)]

Init ==
    /\ flash \in {f \in [Slots -> FieldImages] :
                     f[SECBOOT_MAIN_APP_IMAGE_ADDR] = FactoryImage}
    /\ pubkey = 1
    /\ log \in {ErasedLog, UsedLog}
    /\ flashLocked = TRUE
    /\ ledPin = "SET"
    /\ device = FactoryDevice
    /\ RamInit

(* ------------------------------ operations ----------------------------- *)
HalOutcomes == {"HAL_OK", "HAL_ERROR"}
FailPoints == 0..MaxFailAt \cup {DoubleWords}

\* a call of SECBOOT_Diag_LogEvent(event, code, data) and what it leaves
\* behind; now is the value HAL_GetTick returns inside the call, pads the
\* values the padding byte of the local entry can have
LogEventWith(event, code, data, now, pads) ==
    \E pad \in pads, failAt \in FailPoints :
      \E r \in {SECBOOT_Diag_LogEvent(log, log_index, flashLocked,
                                       event, code, data, Word(now), pad, failAt)} :
        \* the call programmed all the doublewords of its slot
        \E full \in {/\ r.log[log_index] # log[log_index]
                     /\ Len(r.log[log_index]) = DoubleWords} :
            /\ log' = r.log
            /\ log_index' = r.index
            /\ flashLocked' = r.locked
            /\ tick' = now
            /\ lastLog' = [called |-> TRUE, event |-> event, code |-> code,
                           data |-> data, slot |-> log_index,
                           before |-> log[log_index], ret |-> r.ret,
                           full |-> full,
                           programmed |-> lastLog.programmed + (IF full THEN 1 ELSE 0)]

LogEventAt(event, code, data, now) == LogEventWith(event, code, data, now, Byte)

\* LogEvent(event, code, data) with a data that is no tick
LogCall(event, code, data) ==
    \E now \in TicksFrom(tick) : LogEventAt(event, code, data, now)

\* LogEvent(event, code, HAL_GetTick())
LogCallWithTick(event, code) ==
    \E data \in TicksFrom(tick) :
        \E now \in TicksFrom(data) : LogEventAt(event, code, Word(data), now)

\* a call of SECBOOT_BootManager_VerifyAppSignature(addr)
VerifyCall(addr) ==
    \E shaHal \in HalOutcomes, pkaHal \in HalStatuses, sticks \in BOOLEAN :
        LET r == VerifyAppSignature(flash[addr], pubkey, pkaReady, shaHal, pkaHal)
        IN  /\ flash' = [flash EXCEPT ![addr] = ScrubbedImage(@, r.scrub, sticks)]
            /\ pubkey' = ScrubbedKey(pubkey, r.scrub, sticks)
            /\ lastVerify' = [called |-> TRUE, addr |-> addr, img |-> flash[addr],
                              key |-> pubkey, out |-> r]
            /\ verified' = IF r.status = SECBOOT_BOOTMANAGER_OK
                           THEN verified \cup {addr} ELSE verified

Caller == pc = "idle" /\ calls < MaxCalls

\* the outcomes of the HAL calls of SECBOOT_BootManager_Init; a call behind the
\* first failing one is not made, so its outcome is written as success
InitOutcomes ==
    {o \in [periphOK : 0..NumSecurePeripherals, sram1 : HalOutcomes,
            sram2 : HalOutcomes, pka : HalStatuses, state : BOOLEAN,
            crc : HalOutcomes, sha : HalOutcomes] :
        LET f1 == o.periphOK < NumSecurePeripherals
            f2 == f1 \/ o.sram1 # "HAL_OK"
            f3 == f2 \/ o.sram2 # "HAL_OK"
            f4 == f3 \/ o.pka # "HAL_OK"
            f5 == f4 \/ ~o.state
            f6 == f5 \/ o.crc # "HAL_OK"
        IN  /\ f1 => o.sram1 = "HAL_OK"
            /\ f2 => o.sram2 = "HAL_OK"
            /\ f3 => o.pka = "HAL_OK"
            /\ f4 => o.state
            /\ f5 => o.crc = "HAL_OK"
            /\ f6 => o.sha = "HAL_OK"}

\* what the caller keeps of a call of SECBOOT_BootManager_Init: its status,
\* or with it the outcomes of the HAL calls and the steps that ran
InitReturn(o, r) == [fn |-> "Init", status |-> r.status]
InitTrace(o, r) == [fn |-> "Init", status |-> r.status, hal |-> o, out |-> r]

\* a call of SECBOOT_BootManager_Init(); traced: the caller keeps the trace
InitCall(traced) ==
    /\ pc = "idle"
    /\ \E o \in InitOutcomes :
          LET r == BootManager_Init(is_initialized, pkaReady, o.periphOK, o.sram1,
                                    o.sram2, o.pka, o.state, o.crc, o.sha)
          IN  /\ is_initialized' = r.flag
              /\ pkaReady' = r.ready
              /\ ret' = IF traced THEN InitTrace(o, r) ELSE InitReturn(o, r)
    /\ UNCHANGED <<deinit_is_initialized, device, unwraps, tick, calls, flash, pubkey, log, log_index, flashLocked, ledPin, pc, level,
                   ep, lastVerify, lastLog, verified, jumps>>

CallInit == InitCall(FALSE)
CallInitTraced == InitCall(TRUE)

CallVerifyAppSignature(addr) ==
    /\ Caller
    /\ VerifyCall(addr)
    /\ ret' = [fn |-> "VerifyAppSignature", status |-> lastVerify'.out.status]
    /\ calls' = calls + 1
    /\ UNCHANGED <<deinit_is_initialized, device, unwraps, tick, log, log_index, flashLocked, is_initialized, pkaReady, ledPin,
                   pc, level, ep, lastLog, jumps>>

\* the response SECBOOT_Diag_HandleCrcFail determines for a status (and the
\* mapping with ERROR treated like INVALID_PARAM, and the one with MISMATCH
\* treated like INVALID_PARAM)
CrcFailResponse_MismatchWarns(status) ==
    IF status \in {SECBOOT_CRC_MISMATCH, SECBOOT_CRC_INVALID_PARAM}
    THEN SECBOOT_DIAG_RESP_WARN
    ELSE SECBOOT_DIAG_RESP_LOCKDOWN
CrcFailResponse_ErrorWarns(status) ==
    IF status = SECBOOT_CRC_MISMATCH THEN SECBOOT_DIAG_RESP_RECOVER
    ELSE IF status \in {SECBOOT_CRC_INVALID_PARAM, SECBOOT_CRC_ERROR}
    THEN SECBOOT_DIAG_RESP_WARN
    ELSE SECBOOT_DIAG_RESP_LOCKDOWN
CrcFailResponse(status) ==
    IF status = SECBOOT_CRC_MISMATCH THEN SECBOOT_DIAG_RESP_RECOVER
    ELSE IF status = SECBOOT_CRC_INVALID_PARAM THEN SECBOOT_DIAG_RESP_WARN
    ELSE SECBOOT_DIAG_RESP_LOCKDOWN

\* SECBOOT_Diag_HandleCrcFail(status) up to its call of ExecuteResponse
HandleCrcFail(status) ==
    /\ Caller
    /\ LogCallWithTick(SECBOOT_DIAG_CRC_FAIL, status)
    /\ level' = CrcFailResponse(status)
    /\ ep' = [handler |-> "HandleCrcFail", status |-> status,
              response |-> CrcFailResponse(status), logRet |-> lastLog'.ret,
              executed |-> <<>>, backupVerifies |-> 0, jumpRet |-> NOT_CALLED]
    /\ pc' = "exec"
    /\ ret' = NoRet
    /\ calls' = calls + 1
    /\ UNCHANGED <<deinit_is_initialized, device, unwraps, flash, pubkey, is_initialized, pkaReady, ledPin, lastVerify,
                   verified, jumps>>

\* the error code and the response SECBOOT_Diag_HandleSigFail determines (and
\* the switch with a default case that recovers)
SigFailSelect_DefaultRecovers(status) ==
    IF status \in {SECBOOT_ECDSA_VERIFICATION_FAIL, SECBOOT_ECDSA_INVALID_SIGNATURE,
                   SECBOOT_ECDSA_INVALID_PUBKEY}
    THEN [error_code |-> SIG_FAIL_MAIN_IMAGE, response |-> SECBOOT_DIAG_RESP_LOCKDOWN]
    ELSE [error_code |-> SIG_FAIL_HW_CRYPTO_ERROR, response |-> SECBOOT_DIAG_RESP_RECOVER]
SigFailSelect(status) ==
    CASE status = SECBOOT_ECDSA_VERIFICATION_FAIL ->
            [error_code |-> SIG_FAIL_MAIN_IMAGE, response |-> SECBOOT_DIAG_RESP_LOCKDOWN]
      [] status = SECBOOT_ECDSA_INVALID_SIGNATURE ->
            [error_code |-> SIG_FAIL_CONFIG_SIGNATURE,
             response |-> SECBOOT_DIAG_RESP_LOCKDOWN]
      [] status = SECBOOT_ECDSA_INVALID_PUBKEY ->
            [error_code |-> SIG_FAIL_KEY_EXPIRED, response |-> SECBOOT_DIAG_RESP_LOCKDOWN]
      [] status \in {SECBOOT_ECDSA_PKA_TIMEOUT, SECBOOT_ECDSA_PKA_COMP_ERROR} ->
            [error_code |-> SIG_FAIL_HW_CRYPTO_ERROR,
             response |-> SECBOOT_DIAG_RESP_RECOVER]
      [] OTHER ->
            [error_code |-> SIG_FAIL_UNKNOWN, response |-> SECBOOT_DIAG_RESP_LOCKDOWN]

\* SECBOOT_Diag_HandleSigFail(status) up to its call of ExecuteResponse
HandleSigFail(status) ==
    /\ Caller
    /\ LogCall(SECBOOT_DIAG_SIG_FAIL, SigFailSelect(status).error_code, Word(status))
    /\ level' = SigFailSelect(status).response
    /\ ep' = [handler |-> "HandleSigFail", status |-> status,
              response |-> SigFailSelect(status).response, logRet |-> lastLog'.ret,
              executed |-> <<>>, backupVerifies |-> 0, jumpRet |-> NOT_CALLED]
    /\ pc' = "exec"
    /\ ret' = NoRet
    /\ calls' = calls + 1
    /\ UNCHANGED <<deinit_is_initialized, device, unwraps, flash, pubkey, is_initialized, pkaReady, ledPin, lastVerify,
                   verified, jumps>>

\* SECBOOT_Diag_ExecuteResponse(level): where each case of the switch leads
\* (and, for comparison, a system_lockdown that comes back, and a WARN case
\* that falls through into the lockdown)
ResponseTarget_LockdownReturns(lv) ==
    IF lv = SECBOOT_DIAG_RESP_RECOVER THEN "recover" ELSE "idle"
ResponseTarget_WarnLocks(lv) ==
    IF lv = SECBOOT_DIAG_RESP_RECOVER THEN "recover"
    ELSE IF lv \in {SECBOOT_DIAG_RESP_WARN, SECBOOT_DIAG_RESP_LOCKDOWN} THEN "lockdown"
    ELSE "idle"
ResponseTarget(lv) ==
    CASE lv = SECBOOT_DIAG_RESP_WARN -> "idle"
      [] lv = SECBOOT_DIAG_RESP_RECOVER -> "recover"
      [] lv = SECBOOT_DIAG_RESP_LOCKDOWN -> "lockdown"
      [] OTHER -> "idle"

\* case WARN: the pin write; the handler then returns its response
ExecuteWarn ==
    /\ pc = "exec" /\ level = SECBOOT_DIAG_RESP_WARN
    /\ ledPin' = "RESET"
    /\ ep' = [ep EXCEPT !.executed = Append(@, level)]
    /\ pc' = ResponseTarget(level)
    /\ ret' = [fn |-> ep.handler, response |-> ep.response]
    /\ UNCHANGED <<deinit_is_initialized, device, unwraps, tick, flash, pubkey, log, log_index, flashLocked, is_initialized,
                   pkaReady, level, lastVerify, lastLog, verified, jumps,
                   calls>>

\* case RECOVER: try_recovery_from_backup is entered
ExecuteRecover ==
    /\ pc = "exec" /\ level = SECBOOT_DIAG_RESP_RECOVER
    /\ ep' = [ep EXCEPT !.executed = Append(@, level)]
    /\ pc' = ResponseTarget(level)
    /\ UNCHANGED <<deinit_is_initialized, device, unwraps, tick, flash, pubkey, log, log_index, flashLocked, is_initialized,
                   pkaReady, ledPin, level, lastVerify, lastLog, ret,
                   verified, jumps, calls>>

\* case LOCKDOWN: system_lockdown is entered and spins
ExecuteLockdown ==
    /\ pc = "exec" /\ level = SECBOOT_DIAG_RESP_LOCKDOWN
    /\ ep' = [ep EXCEPT !.executed = Append(@, level)]
    /\ pc' = ResponseTarget(level)
    /\ UNCHANGED <<deinit_is_initialized, device, unwraps, tick, flash, pubkey, log, log_index, flashLocked, is_initialized,
                   pkaReady, ledPin, level, lastVerify, lastLog, ret,
                   verified, jumps, calls>>

\* try_recovery_from_backup, step 1: log the recovery attempt
RecoveryLogAttempt ==
    /\ pc = "recover"
    /\ LogCallWithTick(SECBOOT_DIAG_ROLLBACK_ATTEMPT, ROLLBACK_NORMAL_RECOVERY)
    /\ pc' = "recover_verify"
    /\ UNCHANGED <<deinit_is_initialized, device, unwraps, flash, pubkey, is_initialized, pkaReady, ledPin, level, ep,
                   lastVerify, ret, verified, jumps, calls>>

\* where try_recovery_from_backup goes on the status of the backup verification
\* (and where it would go with the status not looked at, or with a failure
\* starting recovery again)
RecoveryAfterVerify_Unchecked(status) == "recover_jump"
RecoveryAfterVerify_Retry(status) ==
    IF status # SECBOOT_BOOTMANAGER_OK THEN "recover" ELSE "recover_jump"
RecoveryAfterVerify(status) ==
    IF status # SECBOOT_BOOTMANAGER_OK THEN "recover_sigfail" ELSE "recover_jump"

\* step 2: verify the backup image
RecoveryVerify ==
    /\ pc = "recover_verify"
    /\ VerifyCall(SECBOOT_BACKUP_IMAGE_ADDR)
    /\ ep' = [ep EXCEPT !.backupVerifies = @ + 1]
    /\ pc' = RecoveryAfterVerify(lastVerify'.out.status)
    /\ UNCHANGED <<deinit_is_initialized, device, unwraps, tick, log, log_index, flashLocked, is_initialized, pkaReady, ledPin,
                   level, lastLog, ret, jumps, calls>>

\* the level try_recovery_from_backup hands to SECBOOT_Diag_ExecuteResponse on
\* both of its ways out (and a level below the one that brought it in)
RecoveryEscalation_Warn == SECBOOT_DIAG_RESP_WARN
RecoveryEscalation_None == SECBOOT_DIAG_RESP_NONE
RecoveryEscalation == SECBOOT_DIAG_RESP_LOCKDOWN

\* step 3: the backup failed: log it and call ExecuteResponse(LOCKDOWN)
RecoverySigFail ==
    /\ pc = "recover_sigfail"
    /\ LogCall(SECBOOT_DIAG_ROLLBACK_ATTEMPT, SIG_FAIL_BACKUP_IMAGE, Word(0))
    /\ level' = RecoveryEscalation
    /\ pc' = "exec"
    /\ UNCHANGED <<deinit_is_initialized, device, unwraps, flash, pubkey, is_initialized, pkaReady, ledPin, ep, lastVerify,
                   ret, verified, jumps, calls>>

\* SECBOOT_BootManager_JumpTo(addr): the non-secure vector table is set from the
\* header's entry point and the reset handler is called; if that call comes
\* back the function returns JUMP_FAILED (and, for comparison, the function
\* reporting success when the call comes back)
JumpTo_ReportsOk(img, comesBack) ==
    [vtor |-> img.hdr.entryPoint,
     status |-> IF comesBack THEN SECBOOT_BOOTMANAGER_OK ELSE "transferred"]
JumpTo(img, comesBack) ==
    [vtor |-> img.hdr.entryPoint,
     status |-> IF comesBack THEN SECBOOT_BOOTMANAGER_JUMP_FAILED ELSE "transferred"]

\* step 4: jump to the backup image; a jump that came back with OK skips the
\* log of step 5 and goes to step 6, ExecuteResponse(LOCKDOWN)
RecoveryJump ==
    /\ pc = "recover_jump"
    /\ jumps' = Append(jumps, SECBOOT_BACKUP_IMAGE_ADDR)
    /\ \E comesBack \in BOOLEAN :
          LET r == JumpTo(flash[SECBOOT_BACKUP_IMAGE_ADDR], comesBack)
          IN  /\ ep' = [ep EXCEPT !.jumpRet = r.status]
              /\ pc' = IF r.status = "transferred" THEN "jumped"
                        ELSE IF r.status # SECBOOT_BOOTMANAGER_OK THEN "recover_jumpfail"
                        ELSE "exec"
              /\ level' = IF r.status = SECBOOT_BOOTMANAGER_OK
                           THEN RecoveryEscalation ELSE level
    /\ UNCHANGED <<deinit_is_initialized, device, unwraps, tick, flash, pubkey, log, log_index, flashLocked, is_initialized,
                   pkaReady, ledPin, lastVerify, lastLog, ret, verified, calls>>

\* step 5 and 6: the jump came back: log it and call ExecuteResponse(LOCKDOWN)
RecoveryJumpFail ==
    /\ pc = "recover_jumpfail"
    /\ LogCallWithTick(SECBOOT_DIAG_ROLLBACK_ATTEMPT, ROOLBACK_JUMP_FAILED)
    /\ level' = RecoveryEscalation
    /\ pc' = "exec"
    /\ UNCHANGED <<deinit_is_initialized, device, unwraps, flash, pubkey, is_initialized, pkaReady, ledPin, ep, lastVerify,
                   ret, verified, jumps, calls>>

Next ==
    \/ CallInit
    \/ \E addr \in Slots : CallVerifyAppSignature(addr)
    \/ \E status \in CrcStatuses : HandleCrcFail(status)
    \/ \E status \in EcdsaStatuses : HandleSigFail(status)
    \/ ExecuteWarn
    \/ ExecuteRecover
    \/ ExecuteLockdown
    \/ RecoveryLogAttempt
    \/ RecoveryVerify
    \/ RecoverySigFail
    \/ RecoveryJump
    \/ RecoveryJumpFail

Spec == Init /\ [][Next]_vars

\* the steps a failure handler takes once it is entered: the code is
\* sequential and every call it makes returns, so the next step is taken
Episode ==
    \/ ExecuteWarn
    \/ ExecuteRecover
    \/ ExecuteLockdown
    \/ RecoveryLogAttempt
    \/ RecoveryVerify
    \/ RecoverySigFail
    \/ RecoveryJump
    \/ RecoveryJumpFail

\* a boot that initialises the boot manager and handles one failure
NextLive ==
    \/ CallInit
    \/ \E status \in CrcStatuses : ep.handler = "none" /\ HandleCrcFail(status)
    \/ \E status \in EcdsaStatuses : ep.handler = "none" /\ HandleSigFail(status)
    \/ Episode

SpecLive == Init /\ [][NextLive]_vars /\ WF_vars(Episode)

(* ---------------- the verification function on every image ------------- *)
\* the headers whose headerCRC is the checksum of their fields, or is off by one
VerifyImages ==
    {img \in Images :
        img.hdr.headerCRC \in {HeaderCrcOf(img.hdr), (HeaderCrcOf(img.hdr) + 1) % CrcMod}}

\* the backup slot holds any payload and any header of VerifyImages
InitVerify ==
    /\ \E img \in VerifyImages :
          flash = [a \in Slots |-> IF a = SECBOOT_BACKUP_IMAGE_ADDR
                                    THEN img ELSE FactoryImage]
    /\ pubkey = 1
    /\ log = ErasedLog
    /\ flashLocked = TRUE
    /\ ledPin = "SET"
    /\ device = FactoryDevice
    /\ RamInit

\* a boot that initialises the boot manager and verifies one slot, once
NextVerify ==
    \/ ~lastVerify.called /\ CallInit
    \/ \E addr \in Slots : ~lastVerify.called /\ CallVerifyAppSignature(addr)

SpecVerify == InitVerify /\ [][NextVerify]_vars

(* ------------------- the log function on every slot -------------------- *)
\* what the slot at log_index can hold when the function is called: erased,
\* a whole entry, the first doubleword of one, a first doubleword of which only
\* the second word was programmed, and an erased first doubleword in front of a
\* programmed one
LogSlots ==
    LET entry == EntryDoubleWords(Word(1), SECBOOT_DIAG_CRC_FAIL,
                                  SECBOOT_CRC_INVALID_PARAM, 0, Word(1), 0)
    IN  {ErasedSlot, entry, SubSeq(entry, 1, 1),
         <<<<FLASH_ERASED_WORD, Word(1)>>>>,
         <<ERASED_DW, entry[2]>>}

\* the events a caller can pass: the four of SECBOOT_Diag_EventType and a
\* value above the last of them
LogEvents ==
    {SECBOOT_DIAG_CRC_FAIL, SECBOOT_DIAG_SIG_FAIL, SECBOOT_DIAG_SECURE_VIOLATION,
     SECBOOT_DIAG_ROLLBACK_ATTEMPT, SECBOOT_DIAG_ROLLBACK_ATTEMPT + 1}

InitLog ==
    /\ flash = [a \in Slots |-> FactoryImage]
    /\ pubkey = 1
    /\ \E slot \in LogSlots : log = [ErasedLog EXCEPT ![0] = slot]
    /\ flashLocked = TRUE
    /\ ledPin = "SET"
    /\ device = FactoryDevice
    /\ RamInit

\* SECBOOT_Diag_LogEvent(event, code, data) called by the boot code
CallLogEvent(event, code, data) ==
    /\ Caller
    /\ LogCall(event, code, data)
    /\ ret' = [fn |-> "LogEvent", status |-> lastLog'.ret]
    /\ calls' = calls + 1
    /\ UNCHANGED <<deinit_is_initialized, device, unwraps, flash, pubkey, is_initialized, pkaReady, ledPin, pc, level, ep,
                   lastVerify, verified, jumps>>

NextLog ==
    \E event \in LogEvents, code \in {SIG_FAIL_MAIN_IMAGE, SIG_FAIL_UNKNOWN},
       data \in {Word(0), Word(1)} :
        CallLogEvent(event, code, data)

SpecLog == InitLog /\ [][NextLog]_vars

(* ------------------- the log function around the ring ------------------ *)
InitRing ==
    /\ flash = [a \in Slots |-> FactoryImage]
    /\ pubkey = 1
    /\ log \in {ErasedLog, UsedLog}
    /\ flashLocked = TRUE
    /\ ledPin = "SET"
    /\ device = FactoryDevice
    /\ RamInit

\* one more SECBOOT_Diag_LogEvent(SIG_FAIL, SIG_FAIL_MAIN_IMAGE, 1) by the boot
\* code, the padding byte of its entry 0
WriteLogEntry ==
    /\ pc = "idle"
    /\ calls < MaxWrites
    /\ \E now \in TicksFrom(tick) :
          LogEventWith(SECBOOT_DIAG_SIG_FAIL, SIG_FAIL_MAIN_IMAGE, Word(1), now, {0})
    /\ ret' = [fn |-> "LogEvent", status |-> lastLog'.ret]
    /\ calls' = calls + 1
    /\ UNCHANGED <<deinit_is_initialized, device, unwraps, flash, pubkey, is_initialized, pkaReady, ledPin, pc, level, ep,
                   lastVerify, verified, jumps>>

NextRing == WriteLogEntry

SpecRing == InitRing /\ [][NextRing]_vars

(* ----------------------- the key unwrap on every device ---------------- *)
InitKey ==
    /\ flash = [a \in Slots |-> FactoryImage]
    /\ pubkey = 1
    /\ log = ErasedLog
    /\ flashLocked = TRUE
    /\ ledPin = "SET"
    /\ device \in Devices
    /\ RamInit

\* get_AES_key(&secret) called by the boot code, secret zeroed before the call
CallGetAesKey ==
    /\ pc = "idle"
    /\ Len(unwraps) < MaxUnwraps
    /\ \E init \in HalOutcomes, decrypt \in HalOutcomes, deinit \in HalOutcomes,
          behind \in StackWords :
          LET r == get_AES_key(device, init, decrypt, deinit, behind)
          IN  /\ unwraps' = Append(unwraps,
                               [init |-> init, decrypt |-> decrypt, deinit |-> deinit,
                                out |-> r])
              /\ ret' = [fn |-> "get_AES_key", status |-> r.status]
    /\ UNCHANGED <<deinit_is_initialized, device, flash, pubkey, log, log_index, flashLocked, is_initialized,
                   pkaReady, ledPin, pc, level, ep, lastVerify, lastLog, verified,
                   jumps, tick, calls>>

NextKey == CallGetAesKey

SpecKey == InitKey /\ [][NextKey]_vars

(* --------------------------- the rollback check ------------------------ *)
\* SECBOOT_BootManager_CheckRollbackProtection is declared in
\* secboot_bootmanager.h and has no body in the repository: it is taken from
\* its specification, a lexicographic comparison of the two 4-byte versions.
FW_VERSION_SIZE == 4
VersionBytes == 0..MaxVersionByte \cup {9}
CandidateVersions == [1..FW_VERSION_SIZE -> VersionBytes]
CurrentVersions == {<<1, 0, 0, 0>>, <<1, 2, 0, 0>>, <<0, 0, 0, 0>>, <<2, 9, 1, 0>>}

\* newVersion <= currentVersion from byte i on, in lexicographic order (and
\* the strict order)
RECURSIVE NotNewer_Strict(_, _, _)
NotNewer_Strict(currentVersion, newVersion, i) ==
    IF i > FW_VERSION_SIZE THEN FALSE
    ELSE IF newVersion[i] # currentVersion[i] THEN newVersion[i] < currentVersion[i]
    ELSE NotNewer_Strict(currentVersion, newVersion, i + 1)
RECURSIVE NotNewer(_, _, _)
NotNewer(currentVersion, newVersion, i) ==
    IF i > FW_VERSION_SIZE THEN TRUE
    ELSE IF newVersion[i] # currentVersion[i] THEN newVersion[i] < currentVersion[i]
    ELSE NotNewer(currentVersion, newVersion, i + 1)

CheckRollbackProtection(currentVersion, newVersion) ==
    IF NotNewer(currentVersion, newVersion, 1)
    THEN SECBOOT_BOOTMANAGER_VERSION_ROLLBACK
    ELSE SECBOOT_BOOTMANAGER_OK

InitRollback ==
    /\ flash = [a \in Slots |-> FactoryImage]
    /\ pubkey = 1
    /\ log = ErasedLog
    /\ flashLocked = TRUE
    /\ ledPin = "SET"
    /\ device = FactoryDevice
    /\ RamInit

\* SECBOOT_BootManager_CheckRollbackProtection(currentVersion, newVersion)
\* called by the boot code
CallCheckRollbackProtection(currentVersion, newVersion) ==
    /\ Caller
    /\ ret' = [fn |-> "CheckRollbackProtection",
               status |-> CheckRollbackProtection(currentVersion, newVersion),
               currentVersion |-> currentVersion, newVersion |-> newVersion]
    /\ calls' = calls + 1
    /\ UNCHANGED <<deinit_is_initialized, device, unwraps, flash, pubkey, log, log_index, flashLocked,
                   is_initialized, pkaReady, ledPin, pc, level, ep, lastVerify,
                   lastLog, verified, jumps, tick>>

NextRollback ==
    \E currentVersion \in CurrentVersions, newVersion \in CandidateVersions :
        CallCheckRollbackProtection(currentVersion, newVersion)

SpecRollback == InitRollback /\ [][NextRollback]_vars

(* ------------------- the first steps of a boot, any device -------------- *)
InitBoot ==
    /\ flash = [a \in Slots |-> FactoryImage]
    /\ pubkey = 1
    /\ log = ErasedLog
    /\ flashLocked = TRUE
    /\ ledPin = "SET"
    /\ device \in BootDevices
    /\ RamInit

\* SECBOOT_BootManager_VerifyBootloaderCRC() called by the boot code
CallVerifyBootloaderCRC ==
    /\ Caller
    /\ ret' = [fn |-> "VerifyBootloaderCRC", status |-> VerifyBootloaderCRC(device)]
    /\ calls' = calls + 1
    /\ UNCHANGED <<deinit_is_initialized, device, unwraps, flash, pubkey, log, log_index, flashLocked,
                   is_initialized, pkaReady, ledPin, pc, level, ep, lastVerify,
                   lastLog, verified, jumps, tick>>

\* SECBOOT_ECDSA_DeInit() called by the boot code
CallEcdsaDeInit ==
    /\ pc = "idle"
    /\ \E hal \in HalStatuses :
          LET r == SECBOOT_ECDSA_DeInit(deinit_is_initialized, pkaReady, hal)
          IN  /\ deinit_is_initialized' = r.flag
              /\ pkaReady' = r.ready
              /\ ret' = [fn |-> "ECDSA_DeInit", status |-> r.status]
    /\ UNCHANGED <<device, unwraps, flash, pubkey, log, log_index, flashLocked,
                   is_initialized, ledPin, pc, level, ep, lastVerify, lastLog,
                   verified, jumps, tick, calls>>

NextBoot ==
    \/ CallInitTraced
    \/ CallVerifyBootloaderCRC
    \/ CallEcdsaDeInit

SpecBoot == InitBoot /\ [][NextBoot]_vars

(* --------------------------- the firmware update ----------------------- *)
\* SECBOOT_BootManager_UpdateFirmware and SECBOOT_BootManager_FlashFirmware
\* are declared in secboot_bootmanager.h and have no body in the repository:
\* they are taken from their specification.  The verification step is the
\* repository's SECBOOT_BootManager_VerifyAppSignature.
SECBOOT_UPDATE_SLOT_ADDR == "0x08066000"

\* a step of the transaction runs only behind steps that returned OK (and a
\* transaction that goes on whatever a step returned)
UpdateContinues_Always(status) == TRUE
UpdateContinues(status) == status = SECBOOT_BOOTMANAGER_OK

\* flash_firmware(src, dest, size, key, iv): landed is what the destination
\* holds when the function returns; the write path is not trusted, so it is
\* not bound to be the source image even when the function reports success
FlashFirmware(dest, img, programmed, landed) ==
    [status |-> IF programmed THEN SECBOOT_BOOTMANAGER_OK ELSE SECBOOT_BOOTMANAGER_ERROR,
     dest |-> landed]

\* the staging slot, erased
ErasedImage == [FactoryImage EXCEPT !.hdr.magicNumber = FLASH_ERASED_WORD]

\* the images an update can bring: older than, as old as and newer than the
\* factory image, signed by the trusted signer or by another one
UpdateVersions == {<<0, 9, 9, 9>>, <<1, 0, 0, 0>>, <<1, 0, 0, 1>>, <<2, 0, 0, 0>>}
UpdateImages ==
    {[hdr |-> [SignedHeader(FactoryImage.payload, MaxPayload, key)
                  EXCEPT !.version = v],
      payload |-> FactoryImage.payload] : key \in PubKeys, v \in UpdateVersions}

\* what the staging slot can hold behind a write of img: img, img with one
\* payload bit flipped, or what it held before
Landed(dest, img) ==
    {img, [img EXCEPT !.payload[1] = 1 - @], dest}

\* a device with an erased staging slot, its main image the factory's or one
\* the trusted signer made for an earlier update; the boot manager initialised
InitUpdate ==
    /\ \E main \in {img \in UpdateImages : img.hdr.signature = FactoryImage.hdr.signature} :
          flash = [a \in Slots \cup {SECBOOT_UPDATE_SLOT_ADDR} |->
                      IF a = SECBOOT_UPDATE_SLOT_ADDR THEN ErasedImage
                      ELSE IF a = SECBOOT_MAIN_APP_IMAGE_ADDR THEN main
                      ELSE FactoryImage]
    /\ pubkey = 1
    /\ log = ErasedLog
    /\ flashLocked = TRUE
    /\ ledPin = "SET"
    /\ device = FactoryDevice
    /\ log_index = 0
    /\ is_initialized = TRUE
    /\ pkaReady = TRUE
    /\ pc = "idle"
    /\ level = SECBOOT_DIAG_RESP_NONE
    /\ ep = NoEpisode
    /\ lastVerify = NoVerify
    /\ lastLog = NoLog
    /\ ret = NoRet
    /\ verified = {}
    /\ jumps = <<>>
    /\ tick = 1
    /\ calls = 0
    /\ unwraps = <<>>
    /\ deinit_is_initialized = FALSE

\* update_firmware(header, data), first step: check_rollback against the
\* version of the main image
CallUpdateFirmware(img) ==
    /\ Caller
    /\ LET r == CheckRollbackProtection(flash[SECBOOT_MAIN_APP_IMAGE_ADDR].hdr.version,
                                        img.hdr.version)
       IN  /\ ret' = [fn |-> "UpdateFirmware", candidate |-> img,
                      steps |-> <<[step |-> "check_rollback", status |-> r,
                                   image |-> img]>>,
                      status |-> r, promoted |-> FALSE]
           /\ pc' = IF UpdateContinues(r) THEN "update_flash" ELSE "idle"
    /\ calls' = calls + 1
    /\ UNCHANGED <<deinit_is_initialized, device, unwraps, flash, pubkey, log, log_index, flashLocked,
                   is_initialized, pkaReady, ledPin, level, ep, lastVerify,
                   lastLog, verified, jumps, tick>>

\* second step: flash_firmware into the staging slot
UpdateFlashFirmware ==
    /\ pc = "update_flash"
    /\ \E programmed \in BOOLEAN,
          landed \in Landed(flash[SECBOOT_UPDATE_SLOT_ADDR], ret.candidate) :
          LET r == FlashFirmware(flash[SECBOOT_UPDATE_SLOT_ADDR], ret.candidate,
                                 programmed, landed)
          IN  /\ flash' = [flash EXCEPT ![SECBOOT_UPDATE_SLOT_ADDR] = r.dest]
              /\ ret' = [ret EXCEPT !.steps = Append(@, [step |-> "flash_firmware",
                                                        status |-> r.status,
                                                        image |-> r.dest]),
                                    !.status = r.status]
              /\ pc' = IF UpdateContinues(r.status) THEN "update_verify" ELSE "idle"
    /\ UNCHANGED <<deinit_is_initialized, device, unwraps, pubkey, log, log_index, flashLocked,
                   is_initialized, pkaReady, ledPin, level, ep, lastVerify,
                   lastLog, verified, jumps, tick, calls>>

\* third step: verify_app_signature on the staging slot; the slot is promoted
\* to active main behind it
UpdateVerify ==
    /\ pc = "update_verify"
    /\ VerifyCall(SECBOOT_UPDATE_SLOT_ADDR)
    /\ ret' = [ret EXCEPT !.steps = Append(@, [step |-> "verify_app_signature",
                                              status |-> lastVerify'.out.status,
                                              image |-> lastVerify'.img]),
                          !.status = lastVerify'.out.status,
                          !.promoted = UpdateContinues(lastVerify'.out.status)]
    /\ pc' = "idle"
    /\ UNCHANGED <<deinit_is_initialized, device, unwraps, log, log_index, flashLocked, is_initialized,
                   pkaReady, ledPin, level, ep, lastLog, jumps, tick, calls>>

NextUpdate ==
    \/ \E img \in UpdateImages : CallUpdateFirmware(img)
    \/ UpdateFlashFirmware
    \/ UpdateVerify

SpecUpdate == InitUpdate /\ [][NextUpdate]_vars

(* --------------------- the AES functions on their own ------------------ *)
\* what the caller's plaintext buffer and plaintext_len hold when
\* SECBOOT_AES_Decrypt has returned d: the memcpy and the store of the length
\* stand behind both checks (and a function that stores them on every path)
AesDecryptOutput_Always(d, plaintext, plaintext_len) ==
    [plaintext |-> d.plaintext \o SubSeq(plaintext, Len(d.plaintext) + 1, Len(plaintext)),
     plaintext_len |-> Len(d.plaintext)]
AesDecryptOutput(d, plaintext, plaintext_len) ==
    IF d.status = SECBOOT_AES_OK
    THEN [plaintext |-> d.plaintext \o
                        SubSeq(plaintext, Len(d.plaintext) + 1, Len(plaintext)),
          plaintext_len |-> Len(d.plaintext)]
    ELSE [plaintext |-> plaintext, plaintext_len |-> plaintext_len]

\* the contexts SECBOOT_AES_Init leaves: the key of either device, the stored iv
AesContexts == {[key |-> TempKey(uid), iv |-> StoredIv] : uid \in Uids}

\* byte strings of every length up to MaxPlainLen, of one byte value each
PlainBytes == {0, 1, 16}
AesPlaintexts == {[i \in 1..n |-> b] : n \in 0..MaxPlainLen, b \in PlainBytes}

\* words that are no output of SECBOOT_AES_Encrypt: no padding at all, a last
\* byte of 1, a last byte above the block size
StrayWords ==
    {ZeroWords(4),
     <<WORD_00000000, WORD_00000000, WORD_00000000, Word(1)>>,
     <<WORD_00000000, WORD_00000000, WORD_00000000, Word(17)>>,
     <<WORD_00000000, WORD_00000000, WORD_00000000, <<0, 514>>>>}

\* what a caller can hand to SECBOOT_AES_Decrypt: the ciphertext of a byte
\* string, or a damaged one that decrypts to stray words
AesCiphertexts ==
    {SECBOOT_AES_Encrypt(ctx, p, Len(p)) : ctx \in AesContexts, p \in AesPlaintexts}
    \cup {HAL_CRYP_Encrypt(w, ctx.key, ctx.iv) : ctx \in AesContexts, w \in StrayWords}

\* the caller's buffer before the call, and the length variable before it
CallerBuffer == [i \in 1..(MaxPlainLen + AES_BLOCK_SIZE) |-> 7]
CallerLengths == {0, 5}

InitAes ==
    /\ flash = [a \in Slots |-> FactoryImage]
    /\ pubkey = 1
    /\ log = ErasedLog
    /\ flashLocked = TRUE
    /\ ledPin = "SET"
    /\ device = FactoryDevice
    /\ RamInit

\* SECBOOT_AES_Decrypt(&ctx, ciphertext, ciphertext_len, plaintext, &plaintext_len)
CallAesDecrypt(ctx, ciphertext, hal, plaintext_len) ==
    /\ pc = "idle"
    /\ LET d == SECBOOT_AES_Decrypt(ctx, ciphertext, Len(ciphertext.plain), hal)
           o == AesDecryptOutput(d, CallerBuffer, plaintext_len)
       IN  ret' = [fn |-> "SECBOOT_AES_Decrypt", status |-> d.status,
                   ctx |-> ctx, ciphertext |-> ciphertext, hal |-> hal,
                   before |-> [plaintext |-> CallerBuffer,
                               plaintext_len |-> plaintext_len],
                   after |-> o]
    /\ UNCHANGED <<deinit_is_initialized, device, unwraps, flash, pubkey, log, log_index, flashLocked,
                   is_initialized, pkaReady, ledPin, pc, level, ep, lastVerify,
                   lastLog, verified, jumps, tick, calls>>

\* PKCS7_Pad(input, len, output, &out_len) and PKCS7_Unpad on its output
CallPkcs7Pad(input) ==
    /\ pc = "idle"
    /\ LET padded == PKCS7_Pad(input, Len(input))
       IN  ret' = [fn |-> "PKCS7_Pad", input |-> input, output |-> padded,
                   unpad |-> PKCS7_Unpad(padded, Len(padded))]
    /\ UNCHANGED <<deinit_is_initialized, device, unwraps, flash, pubkey, log, log_index, flashLocked,
                   is_initialized, pkaReady, ledPin, pc, level, ep, lastVerify,
                   lastLog, verified, jumps, tick, calls>>

\* buffers of n bytes b whose last k bytes are c
PaddedBuffers ==
    {[i \in 1..n |-> IF i > n - k THEN c ELSE b] :
        n \in {0, 15, 16, 17, 32}, k \in 0..17, c \in {0, 1, 2, 3, 16, 17},
        b \in {0, 3}}

\* PKCS7_Unpad(input, input_len, output, &output_len) on any buffer
CallPkcs7Unpad(input) ==
    /\ pc = "idle"
    /\ ret' = [fn |-> "PKCS7_Unpad", input |-> input,
               unpad |-> PKCS7_Unpad(input, Len(input))]
    /\ UNCHANGED <<deinit_is_initialized, device, unwraps, flash, pubkey, log, log_index, flashLocked,
                   is_initialized, pkaReady, ledPin, pc, level, ep, lastVerify,
                   lastLog, verified, jumps, tick, calls>>

\* a boot that calls one of the functions, once
NextAes ==
    \/ \E ctx \in AesContexts, ciphertext \in AesCiphertexts, hal \in HalOutcomes,
          plaintext_len \in CallerLengths :
          ret = NoRet /\ CallAesDecrypt(ctx, ciphertext, hal, plaintext_len)
    \/ \E input \in AesPlaintexts : ret = NoRet /\ CallPkcs7Pad(input)
    \/ \E input \in PaddedBuffers : ret = NoRet /\ CallPkcs7Unpad(input)

SpecAes == InitAes /\ [][NextAes]_vars

(* ------------------- the log region across power cycles ---------------- *)
\* a device fresh from the factory, its log region erased
InitCycle ==
    /\ flash = [a \in Slots |-> FactoryImage]
    /\ pubkey = 1
    /\ log = ErasedLog
    /\ flashLocked = TRUE
    /\ ledPin = "SET"
    /\ device = FactoryDevice
    /\ RamInit

\* power is cut and comes back: the statics, log_index among them, are
\* initialised again; the flash keeps what it holds and nothing in the
\* repository erases the log region
PowerCycle ==
    /\ pc = "idle"
    /\ lastLog.called
    /\ log_index' = 0
    /\ is_initialized' = FALSE
    /\ pkaReady' = FALSE
    /\ pc' = "idle"
    /\ level' = SECBOOT_DIAG_RESP_NONE
    /\ ep' = NoEpisode
    /\ lastVerify' = NoVerify
    /\ lastLog' = NoLog
    /\ ret' = NoRet
    /\ verified' = {}
    /\ jumps' = <<>>
    /\ tick' = 1
    /\ calls' = 0
    /\ unwraps' = <<>>
    /\ deinit_is_initialized' = FALSE
    /\ flashLocked' = TRUE
    /\ ledPin' = "SET"
    /\ UNCHANGED <<flash, pubkey, log, device>>

NextCycle ==
    \/ WriteLogEntry
    \/ PowerCycle

SpecCycle == InitCycle /\ [][NextCycle]_vars

(* ---------------------------- the memory layout ------------------------ *)
\* the five image slots of secboot_config.h: base address and size in bytes
\* (0x08040000, 0x0804D000, 0x08059000, 0x08066000, 0x08073000; 50 KB each)
SlotLayout ==
    [main   |-> [base |-> 134479872, size |-> 50 * 1024],
     slot1  |-> [base |-> 134533120, size |-> 50 * 1024],
     slot2  |-> [base |-> 134582272, size |-> 50 * 1024],
     update |-> [base |-> 134635520, size |-> 50 * 1024],
     backup |-> [base |-> 134688768, size |-> 50 * 1024]]
SlotNames == DOMAIN SlotLayout

\* the slots whose region [base, base + size) holds an address
SlotsAt(addr) ==
    {s \in SlotNames :
        SlotLayout[s].base <= addr /\ addr < SlotLayout[s].base + SlotLayout[s].size}

\* the addresses looked at: every ProbeStep bytes from the base of a slot, and
\* its last byte
ProbeOffsets(s) ==
    {k * ProbeStep : k \in 0..((SlotLayout[s].size - 1) \div ProbeStep)}
    \cup {SlotLayout[s].size - 1}

InitLayout ==
    /\ flash = [a \in Slots |-> FactoryImage]
    /\ pubkey = 1
    /\ log = ErasedLog
    /\ flashLocked = TRUE
    /\ ledPin = "SET"
    /\ device = FactoryDevice
    /\ RamInit

\* the boot code addresses byte offset of slot s
AddressSlot(s, offset) ==
    /\ pc = "idle"
    /\ ret' = [fn |-> "AddressSlot", slot |-> s,
               addr |-> SlotLayout[s].base + offset,
               slots |-> SlotsAt(SlotLayout[s].base + offset)]
    /\ UNCHANGED <<deinit_is_initialized, device, unwraps, flash, pubkey, log,
                   log_index, flashLocked, is_initialized, pkaReady, ledPin, pc,
                   level, ep, lastVerify, lastLog, verified, jumps, tick, calls>>

\* a boot that addresses one byte
NextLayout ==
    \E s \in SlotNames : \E offset \in ProbeOffsets(s) :
        ret = NoRet /\ AddressSlot(s, offset)

SpecLayout == InitLayout /\ [][NextLayout]_vars

(* ------------------------------- claims -------------------------------- *)
\* what the last verification was given, by the data alone
LastHeader == lastVerify.img.hdr
LastPayloadDigest ==
    SHA256(SubSeq(lastVerify.img.payload, 1, LastHeader.imageSize))
LastStatus == lastVerify.out.status

\* C1: JumpTo is called on an address only after VerifyAppSignature returned OK
\* for that address in this boot, and the verification that precedes the jump
\* is the one of that address and returned OK.
C1_JumpOnlyAfterVerify ==
    jumps # <<>> =>
        /\ \A i \in 1..Len(jumps) : jumps[i] \in verified
        /\ lastVerify.called
        /\ lastVerify.addr = jumps[Len(jumps)]
        /\ LastStatus = SECBOOT_BOOTMANAGER_OK

C1_Witness ==
    /\ pc = "jumped"
    /\ jumps = <<SECBOOT_BACKUP_IMAGE_ADDR>>
    /\ SECBOOT_BACKUP_IMAGE_ADDR \in verified

\* C2: VerifyAppSignature returns OK only if the magic number is the constant,
\* the hash engine succeeded and its digest of the payload equals the stored
\* hash, and the signature engine reported success for a signature that
\* verifies; in every other case the status is not OK.
C2_OkOnlyIfAllPass ==
    (lastVerify.called /\ LastStatus = SECBOOT_BOOTMANAGER_OK) =>
        /\ LastHeader.magicNumber = FW_MAGIC_NUMBER
        /\ LastHeader.imageSize # 0
        /\ lastVerify.out.sha = SECBOOT_SHA256_OK
        /\ lastVerify.out.digest = LastPayloadDigest
        /\ LastPayloadDigest = LastHeader.firmwareHash
        /\ lastVerify.out.ecdsaCalled
        /\ lastVerify.out.ecdsa = SECBOOT_ECDSA_VERIFICATION_SUCCESS
        /\ IsValidSignature(LastPayloadDigest, LastHeader.signature, lastVerify.key)

C2_Witness ==
    /\ lastVerify.called
    /\ LastStatus = SECBOOT_BOOTMANAGER_OK
    /\ lastVerify.addr = SECBOOT_BACKUP_IMAGE_ADDR

\* C3: with a magic number other than the constant the status is
\* INVALID_HEADER and neither the hash nor the signature engine is invoked.
C3_BadMagicStopsFirst ==
    (lastVerify.called /\ LastHeader.magicNumber # FW_MAGIC_NUMBER) =>
        /\ LastStatus = SECBOOT_BOOTMANAGER_INVALID_HEADER
        /\ lastVerify.out.sha = NOT_CALLED
        /\ ~lastVerify.out.engine
        /\ ~lastVerify.out.ecdsaCalled

C3_Witness ==
    /\ lastVerify.called
    /\ LastHeader.magicNumber # FW_MAGIC_NUMBER
    /\ LastHeader.imageSize # 0
    /\ LastHeader.firmwareHash = LastPayloadDigest

\* C4: past the magic check, when the hash computed over the payload differs
\* from the stored hash the status is INVALID_HASH and the signature engine is
\* not invoked.
C4_HashMismatchStops ==
    (/\ lastVerify.called
     /\ LastHeader.magicNumber = FW_MAGIC_NUMBER
     /\ lastVerify.out.sha = SECBOOT_SHA256_OK
     /\ LastPayloadDigest # LastHeader.firmwareHash) =>
        /\ LastStatus = SECBOOT_BOOTMANAGER_INVALID_HASH
        /\ ~lastVerify.out.ecdsaCalled

C4_Witness ==
    /\ lastVerify.called
    /\ LastHeader.magicNumber = FW_MAGIC_NUMBER
    /\ lastVerify.out.sha = SECBOOT_SHA256_OK
    /\ LastPayloadDigest # LastHeader.firmwareHash
    /\ LastHeader.signature = Sign(LastHeader.firmwareHash, 1)

\* C5: past the magic and hash checks, when the header's signature does not
\* verify over the computed hash against the stored public key, the status is
\* INVALID_SIGNATURE.
C5_BadSignature ==
    (/\ lastVerify.called
     /\ LastHeader.magicNumber = FW_MAGIC_NUMBER
     /\ lastVerify.out.sha = SECBOOT_SHA256_OK
     /\ LastPayloadDigest = LastHeader.firmwareHash
     /\ \/ ~IsValidSignature(LastPayloadDigest, LastHeader.signature, lastVerify.key)
        \/ lastVerify.out.ecdsa # SECBOOT_ECDSA_VERIFICATION_SUCCESS) =>
        LastStatus = SECBOOT_BOOTMANAGER_INVALID_SIGNATURE

\* a signature that another signer's key would accept
C5_Witness ==
    /\ lastVerify.called
    /\ LastHeader.magicNumber = FW_MAGIC_NUMBER
    /\ lastVerify.out.sha = SECBOOT_SHA256_OK
    /\ LastPayloadDigest = LastHeader.firmwareHash
    /\ LastHeader.signature = Sign(LastPayloadDigest, 2)
    /\ lastVerify.out.ecdsa = SECBOOT_ECDSA_VERIFICATION_FAIL
    /\ LastStatus = SECBOOT_BOOTMANAGER_INVALID_SIGNATURE

\* C6: VerifyAppSignature returns OK only for a header whose stored headerCRC
\* equals the CRC computed over the fields before it.
C6_HeaderCrcChecked ==
    (lastVerify.called /\ LastStatus = SECBOOT_BOOTMANAGER_OK) =>
        LastHeader.headerCRC = HeaderCrcOf(LastHeader)

\* C7: a call of VerifyAppSignature leaves the header in the slot and the
\* stored public key as they were.
C7_StoredDataUnchanged ==
    lastVerify.called =>
        /\ flash[lastVerify.addr] = lastVerify.img
        /\ pubkey = lastVerify.key

\* C8: in one failure-handling episode the backup slot is verified at most
\* once; once recovery has run its verification it is not run again, and when
\* it failed the only thing that follows is LOCKDOWN: never the caller, never
\* a handler, never recovery again.
C8_RecoveryOnce ==
    /\ ep.backupVerifies <= 1
    /\ Len(SelectSeq(ep.executed, LAMBDA l : l = SECBOOT_DIAG_RESP_RECOVER)) <= 1
    /\ pc \in {"recover_sigfail", "recover_jump", "recover_jumpfail", "jumped"} =>
          ep.backupVerifies = 1
    /\ (ep.backupVerifies = 1 /\ LastStatus # SECBOOT_BOOTMANAGER_OK) =>
          /\ pc \in {"recover_sigfail", "exec", "lockdown"}
          /\ pc = "exec" => level = SECBOOT_DIAG_RESP_LOCKDOWN
          /\ jumps = <<>>

C8_Witness ==
    /\ pc = "lockdown"
    /\ ep.backupVerifies = 1
    /\ LastStatus # SECBOOT_BOOTMANAGER_OK
    /\ ep.executed = <<SECBOOT_DIAG_RESP_RECOVER, SECBOOT_DIAG_RESP_LOCKDOWN>>

\* C9: in HandleCrcFail and HandleSigFail the response action begins only
\* after the log write of that failure returned OK.
C9_LoggedBeforeResponse ==
    (ep.handler # "none" /\ pc # "idle") => ep.logRet = SECBOOT_DIAG_OK

\* C10: HandleCrcFail selects and executes RECOVER for MISMATCH, WARN for
\* INVALID_PARAM and LOCKDOWN for every other status, whatever else happened.
C10_CrcFailMapping ==
    ep.handler = "HandleCrcFail" =>
        LET expected ==
                CASE ep.status = SECBOOT_CRC_MISMATCH -> SECBOOT_DIAG_RESP_RECOVER
                  [] ep.status = SECBOOT_CRC_INVALID_PARAM -> SECBOOT_DIAG_RESP_WARN
                  [] OTHER -> SECBOOT_DIAG_RESP_LOCKDOWN
        IN  /\ ep.response = expected
            /\ ep.executed = <<>> => (pc = "exec" /\ level = expected)
            /\ ep.executed # <<>> => ep.executed[1] = expected
            /\ (pc = "idle" /\ ret.fn = "HandleCrcFail") => ret.response = expected

C10_Witness ==
    /\ ep.handler = "HandleCrcFail"
    /\ ep.status = SECBOOT_CRC_INIT_FAILED
    /\ pc = "lockdown"
    /\ ep.executed = <<SECBOOT_DIAG_RESP_LOCKDOWN>>

\* the level the episode executed last, NONE before the first
LastExecuted ==
    IF ep.executed = <<>> THEN SECBOOT_DIAG_RESP_NONE
    ELSE ep.executed[Len(ep.executed)]

\* C11: HandleSigFail selects LOCKDOWN for VERIFICATION_FAIL, INVALID_SIGNATURE
\* and INVALID_PUBKEY, RECOVER for PKA_TIMEOUT and PKA_COMP_ERROR, and LOCKDOWN
\* for every other status; the level it selected is the first it executes.
C11_SigFailMapping ==
    ep.handler = "HandleSigFail" =>
        LET expected ==
                IF ep.status \in {SECBOOT_ECDSA_PKA_TIMEOUT, SECBOOT_ECDSA_PKA_COMP_ERROR}
                THEN SECBOOT_DIAG_RESP_RECOVER
                ELSE SECBOOT_DIAG_RESP_LOCKDOWN
        IN  /\ ep.response = expected
            /\ ep.executed = <<>> => (pc = "exec" /\ level = expected)
            /\ ep.executed # <<>> => ep.executed[1] = expected

C11_Witness ==
    /\ ep.handler = "HandleSigFail"
    /\ ep.status = SECBOOT_ECDSA_VERIFICATION_SUCCESS
    /\ pc = "lockdown"
    /\ ep.executed = <<SECBOOT_DIAG_RESP_LOCKDOWN>>

\* C14: the levels one episode executes never decrease: after RECOVER only
\* LOCKDOWN is executed, and LOCKDOWN is the last level executed.
C14_EscalationMonotonic ==
    /\ \A i, j \in 1..Len(ep.executed) : i < j => ep.executed[i] <= ep.executed[j]
    /\ \A i \in 1..Len(ep.executed) :
          /\ (ep.executed[i] = SECBOOT_DIAG_RESP_LOCKDOWN) => i = Len(ep.executed)
          /\ (i > 1 /\ ep.executed[i - 1] = SECBOOT_DIAG_RESP_RECOVER) =>
                ep.executed[i] = SECBOOT_DIAG_RESP_LOCKDOWN
    /\ (pc = "exec" /\ ep.executed # <<>>) => level >= LastExecuted

C14_Witness ==
    /\ ep.executed = <<SECBOOT_DIAG_RESP_RECOVER, SECBOOT_DIAG_RESP_LOCKDOWN>>
    /\ ep.jumpRet = SECBOOT_BOOTMANAGER_JUMP_FAILED

\* C15: once system_lockdown is entered nothing changes any more: no log
\* write, no flash operation, no verification, no jump, no return.
C15_LockdownTerminal ==
    [][LastExecuted = SECBOOT_DIAG_RESP_LOCKDOWN => (pc = "lockdown" /\ UNCHANGED vars)]_vars

C15_Witness ==
    /\ pc = "lockdown"
    /\ LastExecuted = SECBOOT_DIAG_RESP_LOCKDOWN
    /\ ep.handler = "HandleSigFail"
    /\ ep.executed = <<SECBOOT_DIAG_RESP_RECOVER, SECBOOT_DIAG_RESP_LOCKDOWN>>

\* C16: JumpTo never reports success: when it returns its status is
\* JUMP_FAILED; in recovery a jump that came back is followed by the log call
\* with code ROOLBACK_JUMP_FAILED and then by LOCKDOWN, with no second jump and
\* no second verification; a boot calls JumpTo at most once.
C16_JumpFailsClosed ==
    /\ Len(jumps) <= 1
    /\ ep.jumpRet \in {NOT_CALLED, "transferred", SECBOOT_BOOTMANAGER_JUMP_FAILED}
    /\ pc = "jumped" <=> ep.jumpRet = "transferred"
    /\ ep.jumpRet = SECBOOT_BOOTMANAGER_JUMP_FAILED =>
          /\ pc \in {"recover_jumpfail", "exec", "lockdown"}
          /\ jumps = <<SECBOOT_BACKUP_IMAGE_ADDR>>
          /\ ep.backupVerifies = 1
          /\ pc \in {"exec", "lockdown"} =>
                /\ lastLog.called
                /\ lastLog.event = SECBOOT_DIAG_ROLLBACK_ATTEMPT
                /\ lastLog.code = ROOLBACK_JUMP_FAILED
          /\ pc = "exec" => level = SECBOOT_DIAG_RESP_LOCKDOWN
          /\ pc = "lockdown" =>
                ep.executed = <<SECBOOT_DIAG_RESP_RECOVER, SECBOOT_DIAG_RESP_LOCKDOWN>>

C16_Witness ==
    /\ ep.jumpRet = SECBOOT_BOOTMANAGER_JUMP_FAILED
    /\ pc = "lockdown"
    /\ lastLog.code = ROOLBACK_JUMP_FAILED

\* C18: the WARN response writes the indicator pin and returns WARN to the
\* caller of the handler: after the handler's log call it runs no
\* verification, no jump, no lockdown and no further log or flash write.
C18_WarnContinues ==
    [][(pc = "exec" /\ level = SECBOOT_DIAG_RESP_WARN) =>
          /\ ep.handler = "HandleCrcFail" /\ ep.executed = <<>>
          /\ lastLog.called /\ lastLog.event = SECBOOT_DIAG_CRC_FAIL
          /\ lastLog.code = SECBOOT_CRC_INVALID_PARAM
          /\ pc' = "idle"
          /\ ret' = [fn |-> "HandleCrcFail", response |-> SECBOOT_DIAG_RESP_WARN]
          /\ ledPin' = "RESET"
          /\ ep'.executed = <<SECBOOT_DIAG_RESP_WARN>>
          /\ ep'.backupVerifies = 0 /\ ep'.jumpRet = NOT_CALLED
          /\ UNCHANGED <<deinit_is_initialized, device, unwraps, flash, pubkey, log, log_index, flashLocked, lastVerify,
                         lastLog, verified, jumps>>]_vars

C18_Witness ==
    /\ pc = "idle"
    /\ ret = [fn |-> "HandleCrcFail", response |-> SECBOOT_DIAG_RESP_WARN]
    /\ ledPin = "RESET"
    /\ ep.executed = <<SECBOOT_DIAG_RESP_WARN>>

\* the states an episode ends in: control handed to the backup image, or the
\* lockdown loop
Terminal == pc \in {"jumped", "lockdown"}

\* C12, as stated: HandleCrcFail(MISMATCH) returns RECOVER to its caller.
C12_ReturnsRecover ==
    (ep.handler = "HandleCrcFail" /\ ep.status = SECBOOT_CRC_MISMATCH) ~>
        (pc = "idle" /\ ret = [fn |-> "HandleCrcFail",
                               response |-> SECBOOT_DIAG_RESP_RECOVER])

\* C12, amended: HandleCrcFail(MISMATCH) selects RECOVER and never returns to
\* its caller: it ends with control in the backup image or in the lockdown
\* loop, having verified the backup slot exactly once.
C12_RecoverNeverReturns ==
    /\ [] ((ep.handler = "HandleCrcFail" /\ ep.status = SECBOOT_CRC_MISMATCH) =>
              /\ ep.response = SECBOOT_DIAG_RESP_RECOVER
              /\ pc # "idle" /\ ret = NoRet
              /\ ep.backupVerifies <= 1
              /\ Terminal => ep.backupVerifies = 1)
    /\ (ep.handler = "HandleCrcFail" /\ ep.status = SECBOOT_CRC_MISMATCH) ~>
          (Terminal /\ ep.backupVerifies = 1)

C12_Witness ==
    /\ ep.handler = "HandleCrcFail" /\ ep.status = SECBOOT_CRC_MISMATCH
    /\ pc = "lockdown"
    /\ ep.backupVerifies = 1
    /\ LastStatus # SECBOOT_BOOTMANAGER_OK

\* C17: an episode whose response is RECOVER or LOCKDOWN ends: it reaches the
\* jump into the backup image or the lockdown loop, and its verification step
\* is never reached a second time.
C17_EpisodeEnds ==
    /\ [] (pc = "recover_verify" => ep.backupVerifies = 0)
    /\ (pc = "exec" /\ level \in {SECBOOT_DIAG_RESP_RECOVER, SECBOOT_DIAG_RESP_LOCKDOWN})
          ~> Terminal

C17_Witness ==
    /\ pc = "jumped"
    /\ ep.handler = "HandleSigFail"
    /\ ep.executed = <<SECBOOT_DIAG_RESP_RECOVER>>

\* a slot that holds a whole entry with this event and error code
HoldsEntry(slot, event, code) ==
    /\ Len(slot) = DoubleWords
    /\ slot[1][2] = Word(event)
    /\ slot[2][1][1] = code

\* C13: when recovery ran and the backup verification failed, the log holds,
\* before the lockdown is entered, an entry of the recovery attempt and behind
\* it an entry with the code SIG_FAIL_BACKUP_IMAGE.
C13_TwoEntriesBeforeLockdown ==
    (/\ pc \in {"exec", "lockdown"}
     /\ ep.backupVerifies = 1
     /\ LastStatus # SECBOOT_BOOTMANAGER_OK) =>
        \E i, j \in DOMAIN log :
            /\ i < j
            /\ HoldsEntry(log[i], SECBOOT_DIAG_ROLLBACK_ATTEMPT, ROLLBACK_NORMAL_RECOVERY)
            /\ HoldsEntry(log[j], SECBOOT_DIAG_ROLLBACK_ATTEMPT, SIG_FAIL_BACKUP_IMAGE)

\* the slot as the last call of LogEvent found it reads erased all over
LastSlotErased ==
    \A i \in 0..(DoubleWords - 1) : SlotRead(lastLog.before, i) = ERASED_DW

\* C20: a call of LogEvent (with a valid event) on a slot of which any part is
\* not erased returns TAMPERED and leaves the slot as it was.
C20_ProgramsOnlyErasedSlot ==
    (/\ lastLog.called
     /\ lastLog.event <= SECBOOT_DIAG_ROLLBACK_ATTEMPT
     /\ ~LastSlotErased) =>
        /\ lastLog.ret = SECBOOT_DIAG_TAMPERED
        /\ log[lastLog.slot] = lastLog.before

\* the CRC recomputed over the fields in front of crc of the entry a slot holds
RecomputedCrc(slot) ==
    HAL_CRC_Calculate(EntryCrcInput(slot[1][1], slot[1][2][2], slot[2][1][1],
                                    slot[2][1][2], slot[2][2]))

\* C19: a call of LogEvent that found its slot erased and programmed the whole
\* entry returned OK, and the crc the slot holds equals the CRC recomputed
\* over the fields in front of it.
C19_LogRoundTrip ==
    (/\ lastLog.called
     /\ LastSlotErased
     /\ Len(log[lastLog.slot]) = DoubleWords) =>
        /\ lastLog.ret = SECBOOT_DIAG_OK
        /\ log[lastLog.slot][3][1] = Word(RecomputedCrc(log[lastLog.slot]))

\* C21: log_index stays in 0..15 and is the number of entries programmed in
\* full since boot, modulo 16; the k-th of them (from 0) is in slot k mod 16;
\* a write that comes back to a slot changes it only if the slot is erased.
C21_IndexCircular ==
    /\ log_index \in 0..(SECBOOT_DIAG_MAX_LOGS - 1)
    /\ log_index = lastLog.programmed % SECBOOT_DIAG_MAX_LOGS
    /\ (lastLog.called /\ lastLog.full) =>
          /\ lastLog.slot = (lastLog.programmed - 1) % SECBOOT_DIAG_MAX_LOGS
          /\ HoldsEntry(log[lastLog.slot], lastLog.event, lastLog.code)
    /\ (lastLog.called /\ ~LastSlotErased) => log[lastLog.slot] = lastLog.before

\* the 17th write, behind 16 programmed entries, finds slot 0 in use
C21_Witness ==
    /\ calls = SECBOOT_DIAG_MAX_LOGS + 1
    /\ lastLog.programmed = SECBOOT_DIAG_MAX_LOGS
    /\ lastLog.slot = 0
    /\ ~lastLog.full
    /\ log_index = 0

\* C22: LogEvent returns OK only if it programmed its whole entry and the crc
\* the slot then holds equals the CRC recomputed over the entry's other fields;
\* a programmed entry whose stored crc differs makes it return TAMPERED.
C22_WriteVerifyOrDistrust ==
    lastLog.called =>
        LET slot == log[lastLog.slot]
        IN  /\ lastLog.ret = SECBOOT_DIAG_OK =>
                  /\ lastLog.full
                  /\ slot[3][1] = Word(RecomputedCrc(slot))
            /\ (lastLog.full /\ slot[3][1] # Word(RecomputedCrc(slot))) =>
                  lastLog.ret = SECBOOT_DIAG_TAMPERED

\* a call that returned OK
C22_Witness ==
    /\ lastLog.called
    /\ lastLog.full
    /\ lastLog.ret = SECBOOT_DIAG_OK

\* the last call of get_AES_key
LastUnwrap == unwraps[Len(unwraps)]
Degenerate(words) ==
    \A i \in 1..Len(words) : words[i] \in {WORD_00000000, WORD_FFFFFFFF}

\* C23: get_AES_key returns a status other than OK when every word of the
\* decrypted key is 0x00000000 or 0xFFFFFFFF, and OK only if init, decrypt and
\* de-init succeeded and a key word is neither.
C23_RejectsDegenerateKey ==
    unwraps # <<>> =>
        LET r == LastUnwrap.out
        IN  /\ Degenerate(r.key) => r.status # SECBOOT_AES_OK
            /\ r.status = SECBOOT_AES_OK =>
                  /\ r.initStatus = SECBOOT_AES_OK
                  /\ r.decryptCalled /\ r.decryptStatus = SECBOOT_AES_OK
                  /\ r.deinitStatus = SECBOOT_AES_OK
                  /\ ~Degenerate(r.key)

\* C24: when get_AES_key returns, temp_key, temp_iv, decrypted_key, Aes_key,
\* Aes_iv and the key and iv of the AES context hold only zeros.
C24_ScrubOnEveryExit ==
    unwraps # <<>> =>
        LET l == LastUnwrap.out.locals
        IN  /\ l.temp_key = ZeroWords(4)
            /\ l.temp_iv = ZeroWords(IV_WORD_SIZE)
            /\ l.decrypted_key = ZeroBytes(AES_KEY_SIZE)
            /\ l.Aes_key = ZeroWords(KEY_WORD_SIZE)
            /\ l.Aes_iv = ZeroWords(IV_WORD_SIZE)
            /\ l.ctx_key = ZeroWords(KEY_WORD_SIZE)
            /\ l.ctx_iv = ZeroWords(IV_WORD_SIZE)

\* C25: when get_AES_key returns a status other than OK, the caller's
\* AES_Secrets (zeroed before the call) holds no key and no IV.
C25_SecretsOnlyOnSuccess ==
    (unwraps # <<>> /\ LastUnwrap.out.status # SECBOOT_AES_OK) =>
        /\ LastUnwrap.out.AES_secret.AES_key = ZeroWords(KEY_WORD_SIZE)
        /\ LastUnwrap.out.AES_secret.AES_iv = ZeroWords(IV_WORD_SIZE)

\* C26: two calls of get_AES_key on the same device with the same outcomes of
\* the CRYP peripheral return the same status and the same AES_Secrets.
C26_UnwrapDeterministic ==
    \A a, b \in 1..Len(unwraps) :
        (/\ unwraps[a].init = unwraps[b].init
         /\ unwraps[a].decrypt = unwraps[b].decrypt
         /\ unwraps[a].deinit = unwraps[b].deinit) =>
            /\ unwraps[a].out.status = unwraps[b].out.status
            /\ unwraps[a].out.AES_secret = unwraps[b].out.AES_secret

\* C27: SECBOOT_BootManager_Init returns SECURE_VIOLATION when a peripheral
\* attribute or SRAM configuration fails, and then calls no crypto
\* initialisation; it returns HW_SECURE_FAULT when the ECDSA, CRC or SHA-256
\* initialisation fails, tried in that order and none tried behind a failed
\* one; it returns OK only if every step succeeded.
C27_InitFailFast ==
    ret.fn = "Init" =>
        LET o == ret.hal
            r == ret.out
            partitionFailed == \/ o.periphOK < NumSecurePeripherals
                               \/ o.sram1 # "HAL_OK"
                               \/ o.sram2 # "HAL_OK"
            ecdsaFailed == r.ecdsaCalled /\ r.ecdsa # SECBOOT_ECDSA_OK
            crcFailed == r.crcCalled /\ o.crc # "HAL_OK"
            shaFailed == r.shaCalled /\ o.sha # "HAL_OK"
        IN  /\ partitionFailed =>
                  /\ ret.status = SECBOOT_BOOTMANAGER_SECURE_VIOLATION
                  /\ ~r.ecdsaCalled /\ ~r.crcCalled /\ ~r.shaCalled
            /\ (ecdsaFailed \/ crcFailed \/ shaFailed) =>
                  ret.status = SECBOOT_BOOTMANAGER_HW_SECURE_FAULT
            /\ r.crcCalled => (r.ecdsaCalled /\ ~ecdsaFailed)
            /\ r.shaCalled => (r.crcCalled /\ ~crcFailed)
            /\ ret.status = SECBOOT_BOOTMANAGER_OK =>
                  /\ ~partitionFailed
                  /\ r.ecdsaCalled /\ r.crcCalled /\ r.shaCalled
                  /\ ~ecdsaFailed /\ ~crcFailed /\ ~shaFailed

\* the configuration of the fourth peripheral failed
C27_Witness ==
    /\ ret.fn = "Init"
    /\ ret.hal.periphOK = 3
    /\ ret.status = SECBOOT_BOOTMANAGER_SECURE_VIOLATION

\* C28: VerifyBootloaderCRC returns OK exactly when the CRC computed over the
\* bootloader region equals the stored CRC word, and INVALID_CRC when the two
\* differ.
C28_BootloaderCrc ==
    ret.fn = "VerifyBootloaderCRC" =>
        LET equal == device.storedCrc = HAL_CRC_Calculate(device.bootloader)
        IN  /\ ret.status = SECBOOT_BOOTMANAGER_OK <=> equal
            /\ ~equal => ret.status = SECBOOT_BOOTMANAGER_INVALID_CRC

\* a bootloader region that does not have the stored CRC
C28_Witness ==
    /\ ret.fn = "VerifyBootloaderCRC"
    /\ device.storedCrc # HAL_CRC_Calculate(device.bootloader)
    /\ ret.status = SECBOOT_BOOTMANAGER_INVALID_CRC

\* C29: when the signature engine times out or reports a computation error
\* during the verification of an image, VerifyAppSignature does not report an
\* invalid signature.
C29_TimeoutNotInvalidSignature ==
    (/\ lastVerify.called
     /\ lastVerify.out.ecdsaCalled
     /\ lastVerify.out.ecdsa \in {SECBOOT_ECDSA_PKA_TIMEOUT,
                                  SECBOOT_ECDSA_PKA_COMP_ERROR}) =>
        LastStatus # SECBOOT_BOOTMANAGER_INVALID_SIGNATURE

\* a version as one number, its first byte the most significant
VersionNumber(v) == ((v[1] * 256 + v[2]) * 256 + v[3]) * 256 + v[4]

\* C30: the rollback check returns VERSION_ROLLBACK when the candidate version
\* is at most the current one in the order of (major, minor, patch, build),
\* equal versions included, and OK otherwise: ([1,0,0,0],[1,0,0,0]) is
\* rejected, ([1,0,0,0],[1,0,0,1]) accepted, ([1,2,0,0],[1,1,9,9]) rejected.
C30_RollbackCheck ==
    ret.fn = "CheckRollbackProtection" =>
        LET cur == ret.currentVersion
            new == ret.newVersion
            rejected == ret.status = SECBOOT_BOOTMANAGER_VERSION_ROLLBACK
        IN  /\ rejected <=> VersionNumber(new) <= VersionNumber(cur)
            /\ ~rejected => ret.status = SECBOOT_BOOTMANAGER_OK
            /\ (cur = <<1, 0, 0, 0>> /\ new = <<1, 0, 0, 0>>) => rejected
            /\ (cur = <<1, 0, 0, 0>> /\ new = <<1, 0, 0, 1>>) => ~rejected
            /\ (cur = <<1, 2, 0, 0>> /\ new = <<1, 1, 9, 9>>) => rejected

\* an older minor version with larger patch and build bytes is rejected
C30_Witness ==
    /\ ret.fn = "CheckRollbackProtection"
    /\ ret.currentVersion = <<1, 2, 0, 0>>
    /\ ret.newVersion = <<1, 1, 9, 9>>
    /\ ret.status = SECBOOT_BOOTMANAGER_VERSION_ROLLBACK

UpdateOrder == <<"check_rollback", "flash_firmware", "verify_app_signature">>

\* C31: update_firmware runs check_rollback, flash_firmware on the staging
\* slot and verify_app_signature on the staging slot in that order, a step
\* only behind steps that all returned OK, and the staging slot is promoted
\* only when the image the flash step left there passed the verification.
C31_UpdateTransaction ==
    ret.fn = "UpdateFirmware" =>
        LET n == Len(ret.steps)
        IN  /\ n \in 1..3
            /\ \A i \in 1..n : ret.steps[i].step = UpdateOrder[i]
            /\ \A i \in 1..(n - 1) : ret.steps[i].status = SECBOOT_BOOTMANAGER_OK
            /\ ret.promoted =>
                  /\ n = 3
                  /\ \A i \in 1..3 : ret.steps[i].status = SECBOOT_BOOTMANAGER_OK
                  /\ VersionNumber(ret.candidate.hdr.version) >
                         VersionNumber(flash[SECBOOT_MAIN_APP_IMAGE_ADDR].hdr.version)
                  /\ lastVerify.called
                  /\ lastVerify.addr = SECBOOT_UPDATE_SLOT_ADDR
                  /\ lastVerify.out.status = SECBOOT_BOOTMANAGER_OK
                  /\ lastVerify.img = ret.steps[2].image
                  /\ LET img == lastVerify.img
                         digest == SHA256(SubSeq(img.payload, 1, img.hdr.imageSize))
                     IN  /\ img.hdr.magicNumber = FW_MAGIC_NUMBER
                         /\ img.hdr.firmwareHash = digest
                         /\ img.hdr.signature = Sign(digest, lastVerify.key)

\* a newer image went through all three steps and was promoted
C31_Witness ==
    /\ ret.fn = "UpdateFirmware"
    /\ Len(ret.steps) = 3
    /\ ret.promoted
    /\ ret.candidate.hdr.version = <<1, 0, 0, 1>>

\* C32: when SECBOOT_AES_DeInit has returned for the context of get_AES_key,
\* with any status, the key and iv words of the context are all zero.
C32_DeInitClearsContext ==
    (unwraps # <<>> /\ LastUnwrap.out.deinitCalled) =>
        /\ LastUnwrap.out.locals.ctx_key = ZeroWords(KEY_WORD_SIZE)
        /\ LastUnwrap.out.locals.ctx_iv = ZeroWords(IV_WORD_SIZE)

\* the last byte p of a buffer is a PKCS7 padding: the length is a non-zero
\* multiple of the block size, p is 1..16 and the last p bytes are all p
ValidPadding(bytes) ==
    /\ Len(bytes) # 0
    /\ Len(bytes) % 16 = 0
    /\ bytes[Len(bytes)] \in 1..16
    /\ \A i \in (Len(bytes) - bytes[Len(bytes)] + 1)..Len(bytes) :
          bytes[i] = bytes[Len(bytes)]

\* C33: SECBOOT_AES_Decrypt leaves the caller's plaintext buffer and length as
\* they were unless the hardware decryption and the padding check both
\* succeeded; a hardware failure returns ERROR, an invalid padding
\* PADDING_ERROR.
C33_DecodeFailureReleasesNothing ==
    ret.fn = "SECBOOT_AES_Decrypt" =>
        LET words == HAL_CRYP_Decrypt(ret.ciphertext, ret.ctx.key, ret.ctx.iv)
            bytes == uint32_to_bytes_be(words, Len(words))
            good == ret.hal = "HAL_OK" /\ ValidPadding(bytes)
        IN  /\ ~good => ret.after = ret.before
            /\ ret.hal # "HAL_OK" => ret.status = SECBOOT_AES_ERROR
            /\ (ret.hal = "HAL_OK" /\ ~ValidPadding(bytes)) =>
                  ret.status = SECBOOT_AES_PADDING_ERROR
            /\ good => ret.status = SECBOOT_AES_OK

\* a ciphertext decrypted under another device's key: the padding check fails
\* and the caller's buffer and length are as before
C33_Witness ==
    /\ ret.fn = "SECBOOT_AES_Decrypt"
    /\ ret.hal = "HAL_OK"
    /\ ret.ctx.key # ret.ciphertext.key
    /\ ret.status = SECBOOT_AES_PADDING_ERROR
    /\ ret.before.plaintext_len = 5
    /\ ret.after = ret.before

\* C40: PKCS7_Pad turns n bytes into n + p bytes, 1 <= p <= 16, a multiple of
\* 16 in all, and PKCS7_Unpad of them returns OK with the n bytes; PKCS7_Unpad
\* returns OK exactly when the length is a non-zero multiple of 16, the last
\* byte p is 1..16 and the last p bytes are all p.
C40_Pkcs7RoundTrip ==
    /\ ret.fn = "PKCS7_Pad" =>
          LET n == Len(ret.input)
              p == Len(ret.output) - n
          IN  /\ p \in 1..16
              /\ Len(ret.output) % 16 = 0
              /\ SubSeq(ret.output, 1, n) = ret.input
              /\ \A i \in (n + 1)..(n + p) : ret.output[i] = p
              /\ ret.unpad.ok
              /\ ret.unpad.output = ret.input
    /\ ret.fn = "PKCS7_Unpad" =>
          /\ ret.unpad.ok <=> ValidPadding(ret.input)
          /\ ret.unpad.ok =>
                ret.unpad.output =
                    SubSeq(ret.input, 1, Len(ret.input) - ret.input[Len(ret.input)])

\* a whole block of input gets a whole block of padding and comes back
C40_Witness ==
    /\ ret.fn = "PKCS7_Pad"
    /\ Len(ret.input) = 16
    /\ Len(ret.output) = 32
    /\ ret.unpad.ok
    /\ ret.unpad.output = ret.input

\* the last call of LogEvent programmed all eight doublewords of its slot
LastProgrammedWhole ==
    /\ log[lastLog.slot] # lastLog.before
    /\ Len(log[lastLog.slot]) = DoubleWords

\* C34: a call of LogEvent leaves log_index as it was unless it programmed
\* all eight doublewords of its entry (so on INVALID_PARAM, on the TAMPERED
\* rejection of a slot that is not erased and on a programming failure), and
\* then log_index is one further (mod 16), also when the read-back makes the
\* call return TAMPERED or ERROR.
C34_IndexMovesBehindWholeEntry ==
    lastLog.called =>
        /\ ~LastProgrammedWhole => log_index = lastLog.slot
        /\ LastProgrammedWhole =>
              log_index = (lastLog.slot + 1) % SECBOOT_DIAG_MAX_LOGS
        /\ lastLog.ret = SECBOOT_DIAG_INVALID_PARAM => ~LastProgrammedWhole
        /\ lastLog.event > SECBOOT_DIAG_ROLLBACK_ATTEMPT => ~LastProgrammedWhole
        /\ SlotRead(lastLog.before, 0)[1] # FLASH_ERASED_WORD => ~LastProgrammedWhole
        /\ (lastLog.ret = SECBOOT_DIAG_ERROR) => ~LastProgrammedWhole
        /\ LastProgrammedWhole =>
              lastLog.ret \in {SECBOOT_DIAG_OK, SECBOOT_DIAG_TAMPERED}

\* the entry was programmed, the read-back made the call return TAMPERED, and
\* the index moved on
C34_Witness ==
    /\ lastLog.called
    /\ LastProgrammedWhole
    /\ lastLog.ret = SECBOOT_DIAG_TAMPERED
    /\ log_index = lastLog.slot + 1

\* C35: a power cycle takes log_index back to 0 and leaves the log region as
\* it is; and in a boot whose log_index is 0 while the first word of slot 0 is
\* programmed, a call of LogEvent returns TAMPERED, programs nothing and leaves
\* log_index at 0, so that every call of that boot does.
C35_IndexLostContentsKept ==
    [][/\ (lastLog.called /\ ~lastLog'.called) => (log_index' = 0 /\ log' = log)
       /\ (/\ lastLog'.called
           /\ calls' = calls + 1
           /\ log_index = 0
           /\ SlotRead(log[0], 0)[1] # FLASH_ERASED_WORD) =>
              /\ lastLog'.ret = SECBOOT_DIAG_TAMPERED
              /\ log' = log
              /\ log_index' = 0]_vars

\* the second call of a boot that programmed nothing finds the entry an
\* earlier boot left in slot 0
C35_Witness ==
    /\ calls = 2
    /\ lastLog.called
    /\ lastLog.programmed = 0
    /\ lastLog.slot = 0
    /\ lastLog.ret = SECBOOT_DIAG_TAMPERED
    /\ Len(log[0]) = DoubleWords
    /\ log_index = 0

\* C36: whenever SECBOOT_Diag_LogEvent is not executing the flash is locked:
\* every return path behind HAL_FLASH_Unlock has called HAL_FLASH_Lock, and the
\* paths in front of it leave the lock as it was.
C36_FlashLockedOutsideLogEvent ==
    /\ flashLocked
    /\ lastLog.called => lastLog.ret \in {SECBOOT_DIAG_OK, SECBOOT_DIAG_ERROR,
                                          SECBOOT_DIAG_INVALID_PARAM,
                                          SECBOOT_DIAG_TAMPERED}

\* a programming failure in the middle of an entry, and the flash is locked
C36_Witness ==
    /\ lastLog.called
    /\ lastLog.ret = SECBOOT_DIAG_ERROR
    /\ log[lastLog.slot] # lastLog.before
    /\ flashLocked

\* C37: once SECBOOT_ECDSA_Init has succeeded its flag stays set for the rest
\* of the power cycle: SECBOOT_ECDSA_DeInit returns INVALID_STATE and touches
\* neither flag, every later SECBOOT_ECDSA_Init returns INVALID_STATE, and a
\* later SECBOOT_BootManager_Init never returns OK; it returns HW_SECURE_FAULT
\* when it reaches the ECDSA step and SECURE_VIOLATION when a step in front of
\* it fails.
C37_EcdsaInitOnce ==
    [][/\ is_initialized => is_initialized'
       /\ ret'.fn = "ECDSA_DeInit" =>
             /\ ret'.status = SECBOOT_ECDSA_INVALID_STATE
             /\ ~deinit_is_initialized'
             /\ is_initialized' = is_initialized
       /\ (is_initialized /\ ret'.fn = "Init") =>
             /\ ret'.out.ecdsaCalled => ret'.out.ecdsa = SECBOOT_ECDSA_INVALID_STATE
             /\ ret'.status = IF ret'.out.ecdsaCalled
                              THEN SECBOOT_BOOTMANAGER_HW_SECURE_FAULT
                              ELSE SECBOOT_BOOTMANAGER_SECURE_VIOLATION]_vars

\* the statement with HW_SECURE_FAULT as the only status of a later call
C37_SecondInitIsHwFault ==
    [][(is_initialized /\ ret'.fn = "Init") =>
          ret'.status = SECBOOT_BOOTMANAGER_HW_SECURE_FAULT]_vars

\* a call of SECBOOT_BootManager_Init behind a successful one reached the
\* ECDSA step, which returned INVALID_STATE
C37_Witness ==
    /\ ret.fn = "Init"
    /\ is_initialized
    /\ ret.out.ecdsaCalled
    /\ ret.out.ecdsa = SECBOOT_ECDSA_INVALID_STATE
    /\ ret.status = SECBOOT_BOOTMANAGER_HW_SECURE_FAULT

\* C38: the regions [base, base + size) of the five image slots are pairwise
\* disjoint: an address of a slot lies in no other slot.
C38_SlotsDisjoint ==
    ret.fn = "AddressSlot" => ret.slots = {ret.slot}

\* C39: in get_AES_key every write and every read of Aes_key, an array of
\* KEY_WORD_SIZE words, has an index in 0..KEY_WORD_SIZE - 1, whatever length
\* the decryption reports and in the validation loop.
C39_KeyBufferInBounds ==
    unwraps # <<>> =>
        /\ LastUnwrap.out.keyWritten \subseteq 0..(KEY_WORD_SIZE - 1)
        /\ LastUnwrap.out.keyRead \subseteq 0..(KEY_WORD_SIZE - 1)

====
